---- MODULE Spec2Model ----
(***************************************************************************)
(* Content Synchronization Engine of Ask-Ed: the sync orchestrator         *)
(* (convex/sync.ts), the Ed API client (lib/ed-client/client.ts) and the   *)
(* vector index client (lib/ed-client/vector-client.ts).                   *)
(*                                                                         *)
(* Conventions.  An optional value of the code is a sequence of length 0   *)
(* (undefined) or 1.  Timestamps are integers (milliseconds).  courseName  *)
(* and courseCode are passed through unchanged by every operation and are  *)
(* left out of the records.                                                *)
(***************************************************************************)
EXTENDS Integers, Sequences, FiniteSets, TLC

\* ------------------------------------------------------------------ bounds
MaxTime == 2
MaxDeltaTime == 3
MaxWorkflows == 2
MaxCalls == 1
MaxDeletes == 1
NumThreads == 2

\* --------------------------------------------------------- program constants
DEFAULT_CLEANUP_DAYS == 7
DEFAULT_STUCK_SYNC_HOURS == 2
MILLISECONDS_PER_HOUR == 60 * 60 * 1000
MILLISECONDS_PER_DAY == 24 * MILLISECONDS_PER_HOUR
BATCH_SIZE == 100
DEFAULT_LOOKBACK_DAYS == 7
MAX_RETRIES == 5

VARIABLES
  now,               \* the wall clock read by Date.now()
  courseSyncStates,  \* the courseSyncStates table: a set of documents
  nextDocId,         \* the _id the next ctx.db.insert allocates
  workflows,         \* the workflows started so far, by workflow id
  calls,             \* the invocations of the public actions, by call id
  upstream,          \* upstream[t]: updated_at of thread t, 0 while t does not exist
  vectors,           \* the vector namespace course_1: a set of [id, updated_at]
  lastFetchedAt,     \* history: when the sync that last wrote completed for a
                     \* course had fetched its thread list
  pager,             \* one run of getAllCourseThreads: its locals, the request
                     \* in flight and the log of its requests
  otherNamespaces,   \* the vector namespaces course_c of the courses c > 1
  returned,          \* the last call of a client method: its arguments and
                     \* what it returned
  retry,             \* one run of withRetry: its locals and the log of its
                     \* attempts and waits
  healthCheck,       \* one run of getHealthStatus: its position, the timer and
                     \* what it resolved to
  batchRun           \* one run of the detail fetches of syncCourseVectors: the
                     \* slice under way and the fetches not yet settled

vars == <<now, courseSyncStates, nextDocId, workflows, calls, upstream, vectors,
          lastFetchedAt, pager, otherNamespaces, returned, retry, healthCheck,
          batchRun>>

\* ---------------------------------------------------------------- options
NONE == <<>>
Some(v) == <<v>>
IsSome(o) == o # <<>>
Val(o) == o[1]
OrElse(o, d) == IF IsSome(o) THEN o ELSE d

Min(S) == CHOOSE x \in S : \A y \in S : x <= y
Range(s) == {s[i] : i \in 1..Len(s)}

RECURSIVE Join(_, _)
\* Array.prototype.join
Join(strs, sep) ==
  IF Len(strs) = 0 THEN ""
  ELSE IF Len(strs) = 1 THEN strs[1]
  ELSE strs[1] \o sep \o Join(Tail(strs), sep)

Courses == {1}
Threads == 1..NumThreads
Tokens == {"", "bad", "ok"}
\* the (syncType, forceFullSync) pairs the triggers are called with
SyncModes == {<<"full", FALSE>>, <<"delta", FALSE>>, <<"delta", TRUE>>}

\* ------------------------------------------------- the courseSyncStates table
\* .withIndex("by_course_id", q => q.eq("courseId", c)).first()
getCourseSyncState(courseId) ==
  LET hits == {d \in courseSyncStates : d.courseId = courseId}
  IN IF hits = {} THEN NONE
     ELSE Some(CHOOSE d \in hits : d._id = Min({h._id : h \in hits}))

\* The arguments of updateSyncState; an argument left out is NONE.
Args(courseId, status, syncType) ==
  [courseId |-> courseId, status |-> status, syncType |-> syncType,
   lastSyncAt |-> NONE, lastSuccessfulSyncAt |-> NONE, totalThreads |-> NONE,
   syncedThreads |-> NONE, errorMessage |-> NONE, workflowId |-> NONE]

\* lastSyncAt of the patch without the fallback to the stored one
PatchLastSyncAt_Supplied(args, existing) == args.lastSyncAt

\* lastSyncAt of the patch: updates.lastSyncAt ?? existing.lastSyncAt
PatchLastSyncAt(args, existing) ==
  OrElse(args.lastSyncAt, existing.lastSyncAt)

\* errorMessage of the patch when no status clears it
PatchErrorMessage_Kept(args, existing) ==
  OrElse(args.errorMessage, existing.errorMessage)

\* errorMessage of the patch: removed on completed and syncing, else the
\* supplied one, else the stored one
PatchErrorMessage(args, existing) ==
  IF args.status = "completed" \/ args.status = "syncing" THEN NONE
  ELSE OrElse(args.errorMessage, existing.errorMessage)

\* lastSuccessfulSyncAt of the patch: the supplied one, else the stored one
PatchLastSuccessfulSyncAt(args, existing) ==
  IF args.lastSuccessfulSyncAt = NONE /\ args.status # "completed"
  THEN existing.lastSuccessfulSyncAt
  ELSE OrElse(args.lastSuccessfulSyncAt, existing.lastSuccessfulSyncAt)

\* ctx.db.patch(existing._id, {...updates, lastSyncAt})
PatchedDoc(args, existing) ==
  [_id |-> existing._id,
   courseId |-> args.courseId,
   status |-> args.status,
   syncType |-> args.syncType,
   lastSyncAt |-> PatchLastSyncAt(args, existing),
   lastSuccessfulSyncAt |-> PatchLastSuccessfulSyncAt(args, existing),
   totalThreads |-> OrElse(args.totalThreads, existing.totalThreads),
   syncedThreads |-> OrElse(args.syncedThreads, existing.syncedThreads),
   errorMessage |-> PatchErrorMessage(args, existing),
   workflowId |-> OrElse(args.workflowId, existing.workflowId)]

\* ctx.db.insert("courseSyncStates", {...})
InsertedDoc(args, id) ==
  [_id |-> id,
   courseId |-> args.courseId,
   status |-> args.status,
   syncType |-> args.syncType,
   lastSyncAt |-> args.lastSyncAt,
   lastSuccessfulSyncAt |-> args.lastSuccessfulSyncAt,
   totalThreads |-> args.totalThreads,
   syncedThreads |-> args.syncedThreads,
   errorMessage |-> args.errorMessage,
   workflowId |-> args.workflowId]

\* the write inserts without looking for the record of the course
updateSyncState_InsertOnly(args) ==
  /\ courseSyncStates' = courseSyncStates \cup {InsertedDoc(args, nextDocId)}
  /\ nextDocId' = nextDocId + 1

\* The mutation updateSyncState: one transaction.
updateSyncState(args) ==
  LET existing == getCourseSyncState(args.courseId)
  IN IF IsSome(existing)
     THEN /\ courseSyncStates' =
               (courseSyncStates \ {Val(existing)}) \cup {PatchedDoc(args, Val(existing))}
          /\ nextDocId' = nextDocId
     ELSE /\ courseSyncStates' = courseSyncStates \cup {InsertedDoc(args, nextDocId)}
          /\ nextDocId' = nextDocId + 1

\* ------------------------------------------------------- document extraction
\* A text is a sequence of one-character strings.
IsSpace(ch) == ch \in {" ", "\n", "\t"}

RECURSIVE TrimStart(_)
TrimStart(s) == IF s # <<>> /\ IsSpace(Head(s)) THEN TrimStart(Tail(s)) ELSE s

RECURSIVE TrimEnd(_)
TrimEnd(s) ==
  IF s # <<>> /\ IsSpace(s[Len(s)]) THEN TrimEnd(SubSeq(s, 1, Len(s) - 1)) ELSE s

\* String.prototype.trim
trim(s) == TrimEnd(TrimStart(s))

RECURSIVE StripTags(_)
\* content.replace(/<[^>]*>/g, ' ')
StripTags(s) ==
  IF s = <<>> THEN <<>>
  ELSE IF Head(s) = "<" /\ \E j \in 2..Len(s) : s[j] = ">"
       THEN LET j == Min({k \in 2..Len(s) : s[k] = ">"})
            IN <<" ">> \o StripTags(SubSeq(s, j + 1, Len(s)))
       ELSE <<Head(s)>> \o StripTags(Tail(s))

RECURSIVE CollapseSpaces(_)
\* .replace(/\s+/g, ' ')
CollapseSpaces(s) ==
  IF s = <<>> THEN <<>>
  ELSE IF IsSpace(Head(s)) THEN <<" ">> \o CollapseSpaces(TrimStart(s))
       ELSE <<Head(s)>> \o CollapseSpaces(Tail(s))

\* cleanText: the document field when it has text, else the content stripped
\* of HTML.  content is an option: the code never checks that it is a string.
cleanText(content, document) ==
  IF trim(document) # <<>> THEN trim(document)
  ELSE trim(CollapseSpaces(StripTags(Val(content))))

\* cleanText throws a TypeError when it calls replace on a missing content.
cleanTextThrows(content, document) == trim(document) = <<>> /\ content = NONE

\* the parts of the id put together without a separator
generateVectorId_NoSeparator(type, threadId, commentId) ==
  IF type = "thread" THEN "thread" \o ToString(threadId)
  ELSE type \o ToString(threadId) \o ToString(commentId)

\* an id that also holds the time at which it is generated
generateVectorId_Timestamped(type, threadId, commentId) ==
  IF type = "thread" THEN "thread_" \o ToString(threadId) \o "_" \o ToString(now)
  ELSE type \o "_" \o ToString(threadId) \o "_" \o ToString(commentId)
            \o "_" \o ToString(now)

generateVectorId(type, threadId, commentId) ==
  IF type = "thread" THEN "thread_" \o ToString(threadId)
  ELSE type \o "_" \o ToString(threadId) \o "_" \o ToString(commentId)

MIN_TEXT_LENGTH == 10

RECURSIVE processComments_Flat(_, _, _)
\* the documents of a list of comments, their replies left out
processComments_Flat(comments, type, thread) ==
  IF comments = <<>> THEN <<>>
  ELSE LET comment == Head(comments)
           commentContent == cleanText(comment.content, comment.document)
           own == IF Len(commentContent) > 10
                  THEN <<[id |-> generateVectorId(type, thread.id, comment.id),
                          type |-> type, thread_id |-> thread.id,
                          updated_at |-> comment.updated_at]>>
                  ELSE <<>>
       IN own \o processComments_Flat(Tail(comments), type, thread)

RECURSIVE processComments_ParentType(_, _, _)
\* the documents of a list of comments, nested comments typed as their parent
processComments_ParentType(comments, type, thread) ==
  IF comments = <<>> THEN <<>>
  ELSE LET comment == Head(comments)
           commentContent == cleanText(comment.content, comment.document)
           own == IF Len(commentContent) > MIN_TEXT_LENGTH
                  THEN <<[id |-> generateVectorId(type, thread.id, comment.id),
                          type |-> type, thread_id |-> thread.id,
                          updated_at |-> comment.updated_at]>>
                  ELSE <<>>
       IN own \o processComments_ParentType(comment.comments, type, thread)
              \o processComments_ParentType(Tail(comments), type, thread)

RECURSIVE processComments(_, _, _)
\* the documents of a list of comments, nested comments after their parent
processComments(comments, type, thread) ==
  IF comments = <<>> THEN <<>>
  ELSE LET comment == Head(comments)
           commentContent == cleanText(comment.content, comment.document)
           own == IF Len(commentContent) > MIN_TEXT_LENGTH
                  THEN <<[id |-> generateVectorId(type, thread.id, comment.id),
                          type |-> type, thread_id |-> thread.id,
                          updated_at |-> comment.updated_at]>>
                  ELSE <<>>
       IN own \o processComments(comment.comments, "comment", thread)
              \o processComments(Tail(comments), type, thread)

RECURSIVE commentsThrow(_)
commentsThrow(comments) ==
  \E i \in 1..Len(comments) :
     \/ cleanTextThrows(comments[i].content, comments[i].document)
     \/ commentsThrow(comments[i].comments)

createThreadVectorDocuments(thread) ==
  LET threadContent == cleanText(thread.content, thread.document)
      own == IF Len(threadContent) > MIN_TEXT_LENGTH
             THEN <<[id |-> generateVectorId("thread", thread.id, 0),
                     type |-> "thread", thread_id |-> thread.id,
                     updated_at |-> thread.updated_at]>>
             ELSE <<>>
  IN own \o processComments(thread.answers, "answer", thread)
         \o processComments(thread.comments, "comment", thread)

createThreadVectorDocumentsThrows(thread) ==
  \/ cleanTextThrows(thread.content, thread.document)
  \/ commentsThrow(thread.answers)
  \/ commentsThrow(thread.comments)

\* --------------------------------------------------------- vector index client
TypeErrorText == "Cannot read properties of undefined (reading 'replace')"
UpsertErrorText == "Upstash request failed"

ThreadError(threadId, msg) ==
  "Failed to process thread " \o ToString(threadId) \o ": " \o msg

ChunkError(chunk, msg) ==
  "Batch upsert failed for chunk " \o ToString(chunk) \o ": " \o msg

RECURSIVE collectDocuments(_)
\* the first loop of upsertThreadsBatch: [docs, errors]
collectDocuments(threads) ==
  IF threads = <<>> THEN [docs |-> <<>>, errors |-> <<>>]
  ELSE LET rest == collectDocuments(Tail(threads))
           thread == Head(threads)
       IN IF createThreadVectorDocumentsThrows(thread)
          THEN [docs |-> rest.docs,
                errors |-> <<ThreadError(thread.id, TypeErrorText)>> \o rest.errors]
          ELSE [docs |-> createThreadVectorDocuments(thread) \o rest.docs,
                errors |-> rest.errors]

\* the loop that leaves out a last chunk of fewer than BATCH_SIZE documents
NumChunks_Floor(n) == n \div BATCH_SIZE

NumChunks(n) == (n + BATCH_SIZE - 1) \div BATCH_SIZE

Chunk(docs, k) ==
  SubSeq(docs, k * BATCH_SIZE + 1,
         IF (k + 1) * BATCH_SIZE < Len(docs) THEN (k + 1) * BATCH_SIZE ELSE Len(docs))

RECURSIVE upsertChunks_StopAtFailure(_, _, _)
\* the loop ends at the first chunk whose upsert rejects
upsertChunks_StopAtFailure(docs, k, failing) ==
  IF k >= NumChunks(Len(docs))
  THEN [upserted |-> 0, errors |-> <<>>, written |-> <<>>]
  ELSE IF k \in failing
  THEN [upserted |-> 0, errors |-> <<ChunkError(k, UpsertErrorText)>>,
        written |-> <<>>]
  ELSE LET rest == upsertChunks_StopAtFailure(docs, k + 1, failing)
       IN [upserted |-> Len(Chunk(docs, k)) + rest.upserted,
           errors |-> rest.errors,
           written |-> Chunk(docs, k) \o rest.written]

RECURSIVE upsertChunks(_, _, _)
\* the second loop of upsertThreadsBatch from chunk k on: failing is the set
\* of chunks whose index.upsert rejects
upsertChunks(docs, k, failing) ==
  IF k >= NumChunks(Len(docs))
  THEN [upserted |-> 0, errors |-> <<>>, written |-> <<>>]
  ELSE LET rest == upsertChunks(docs, k + 1, failing)
       IN IF k \in failing
          THEN [upserted |-> rest.upserted,
                errors |-> <<ChunkError(k, UpsertErrorText)>> \o rest.errors,
                written |-> rest.written]
          ELSE [upserted |-> Len(Chunk(docs, k)) + rest.upserted,
                errors |-> rest.errors,
                written |-> Chunk(docs, k) \o rest.written]

\* upsertThreadsBatch: the VectorSyncResult and the documents written
upsertThreadsBatch(threads, failing) ==
  LET c == collectDocuments(threads)
      u == upsertChunks(c.docs, 0, failing)
  IN [upserted |-> u.upserted, deleted |-> 0,
      errors |-> c.errors \o u.errors, written |-> u.written]

\* deltaSyncCourse: only the threads updated since sinceDate are upserted
deltaSyncCourse(threads, sinceDate, failing) ==
  upsertThreadsBatch(SelectSeq(threads, LAMBDA th : th.updated_at >= sinceDate), failing)

\* the namespace replaced by the documents of the call
UpsertAll_Replace(ns, docs) ==
  {[id |-> docs[i].id, updated_at |-> docs[i].updated_at] : i \in 1..Len(docs)}

\* index.upsert: a vector replaces the stored vector of the same id, the
\* last of the documents with one id being the one that stays
UpsertAll(ns, docs) ==
  LET last == {i \in 1..Len(docs) :
                 \A j \in (i + 1)..Len(docs) : docs[j].id # docs[i].id}
  IN {v \in ns : \A i \in 1..Len(docs) : docs[i].id # v.id}
       \cup {[id |-> docs[i].id, updated_at |-> docs[i].updated_at] : i \in last}

\* ---- the namespaces of the index
DEFAULT_TOP_K == 10
IndexCourses == {1, 2}

\* every method on one fixed namespace
namespaceOf_Shared(courseId) == "course_1"

\* `course_${courseId}`
namespaceOf(courseId) == "course_" \o ToString(courseId)

\* the namespaces of the index other than course_1
OtherNamespaceNames == {"course_2"}

Stored(namespace) ==
  IF namespace = "course_1" THEN vectors ELSE otherNamespaces[namespace]

\* the index after a write to one namespace
Store(namespace, ns) ==
  IF namespace = "course_1"
  THEN vectors' = ns /\ otherNamespaces' = otherNamespaces
  ELSE vectors' = vectors /\ otherNamespaces' = [otherNamespaces EXCEPT ![namespace] = ns]

\* String.prototype.startsWith
startsWith(str, prefix) ==
  Len(prefix) <= Len(str) /\ SubSeq(str, 1, Len(prefix)) = prefix

\* index.delete({ prefix }): the namespace left and result.deleted
deleteByPrefix(ns, prefix) ==
  [ns |-> {v \in ns : ~startsWith(v.id, prefix)},
   deleted |-> Cardinality({v \in ns : startsWith(v.id, prefix)})]

\* deleteThread: three deletions by prefix, one after the other
deleteThread(ns, threadId) ==
  LET result == deleteByPrefix(ns, "thread_" \o ToString(threadId))
      answerResult == deleteByPrefix(result.ns, "answer_" \o ToString(threadId) \o "_")
      commentResult ==
        deleteByPrefix(answerResult.ns, "comment_" \o ToString(threadId) \o "_")
  IN [ns |-> commentResult.ns,
      deleted |-> result.deleted + answerResult.deleted + commentResult.deleted]

\* getCourseStats: the counts over index.range
getCourseStats(ns) ==
  [totalVectors |-> Cardinality(ns),
   threadVectors |-> Cardinality({v \in ns : startsWith(v.id, "thread_")}),
   answerVectors |-> Cardinality({v \in ns : startsWith(v.id, "answer_")}),
   commentVectors |-> Cardinality({v \in ns : startsWith(v.id, "comment_")})]

RangeFailedStats ==
  [totalVectors |-> 0, threadVectors |-> 0, answerVectors |-> 0, commentVectors |-> 0]

\* the last call of a method of the client: none yet
NoCall ==
  [op |-> "none", courseId |-> 0, threads |-> <<>>, threadId |-> 0, ids |-> <<>>,
   options |-> NONE, value |-> NONE, listed |-> <<>>, written |-> <<>>,
   repeated |-> FALSE]

Call(op, courseId, value) ==
  [NoCall EXCEPT !.op = op, !.courseId = courseId, !.value = Some(value)]

IdsOfThreads(threads) == [i \in 1..Len(threads) |-> threads[i].id]

\* ---- the methods of the client, each one call
UpsertThreadsBatchCall(threads, courseId, failing) ==
  LET namespace == namespaceOf(courseId)
      r == upsertThreadsBatch(threads, failing)
  IN /\ Store(namespace, UpsertAll(Stored(namespace), r.written))
     /\ returned' = [Call("upsertThreadsBatch", courseId,
                          [upserted |-> r.upserted, deleted |-> r.deleted,
                           errors |-> r.errors])
                       EXCEPT !.threads = IdsOfThreads(threads)]

DeltaSyncCourseCall(threads, courseId, sinceDate, failing) ==
  LET namespace == namespaceOf(courseId)
      r == deltaSyncCourse(threads, sinceDate, failing)
  IN /\ Store(namespace, UpsertAll(Stored(namespace), r.written))
     /\ returned' = [Call("deltaSyncCourse", courseId,
                          [upserted |-> r.upserted, deleted |-> r.deleted,
                           errors |-> r.errors])
                       EXCEPT !.threads = IdsOfThreads(threads), !.options = Some(sinceDate)]

\* index.query answers with at most topK vectors of the namespace
SearchCourseCall(courseId, topK) ==
  LET ns == Stored(namespaceOf(courseId))
  IN /\ \E results \in SUBSET ns :
          /\ Cardinality(results) = IF Cardinality(ns) < topK THEN Cardinality(ns) ELSE topK
          /\ returned' = [Call("searchCourse", courseId, results)
                            EXCEPT !.options = Some(topK)]
     /\ UNCHANGED <<vectors, otherNamespaces, healthCheck, batchRun>>

\* index.fetch answers null for an id the namespace does not hold
GetVectorsByIdsCall(ids, courseId) ==
  LET ns == Stored(namespaceOf(courseId))
  IN /\ returned' = [Call("getVectorsByIds", courseId,
                          {v \in ns : v.id \in Range(ids)})
                       EXCEPT !.ids = ids]
     /\ UNCHANGED <<vectors, otherNamespaces, healthCheck, batchRun>>

DeleteThreadCall(threadId, courseId) ==
  LET namespace == namespaceOf(courseId)
      r == deleteThread(Stored(namespace), threadId)
  IN /\ Store(namespace, r.ns)
     /\ returned' = [Call("deleteThread", courseId, r.deleted)
                       EXCEPT !.threadId = threadId]

\* index.reset({ namespace })
DeleteCourseCall(courseId) ==
  /\ Store(namespaceOf(courseId), {})
  /\ returned' = Call("deleteCourse", courseId, 0)

GetCourseStatsCall(courseId, rangeThrows) ==
  /\ returned' = Call("getCourseStats", courseId,
                      IF rangeThrows THEN RangeFailedStats
                      ELSE getCourseStats(Stored(namespaceOf(courseId))))
  /\ UNCHANGED <<vectors, otherNamespaces, healthCheck, batchRun>>

\* ------------------------------------------------------------- the Ed API
Text(n) == [i \in 1..n |-> "a"]

\* GET /threads/{id}?view=1 as parsed by getThreadDetails: thread 2 has only a
\* short HTML body and one comment, thread 1 an answer with a short reply,
\* every other thread a body alone.
ThreadDetailsOf(t, updatedAt) ==
  [id |-> t, course_id |-> 1, updated_at |-> updatedAt,
   content |-> Some(<<"<", "p", ">", "o", "k", "<", "/", "p", ">">>),
   document |-> IF t = 2 THEN <<>> ELSE Text(11),
   answers |-> IF t = 1
               THEN <<[id |-> 11, content |-> Some(Text(11)), document |-> Text(11),
                       updated_at |-> updatedAt,
                       comments |-> <<[id |-> 12, content |-> Some(Text(3)),
                                       document |-> <<>>, updated_at |-> updatedAt,
                                       comments |-> <<>>]>>]>>
               ELSE <<>>,
   comments |-> IF t = 2
                THEN <<[id |-> 21, content |-> Some(Text(11)), document |-> <<>>,
                        updated_at |-> updatedAt, comments |-> <<>>]>>
                ELSE <<>>]

RECURSIVE NewestFirst(_)
NewestFirst(S) ==
  IF S = {} THEN <<>>
  ELSE LET t == CHOOSE x \in S : \A y \in S : y <= x
       IN <<[id |-> t, updated_at |-> upstream[t]]>> \o NewestFirst(S \ {t})

\* the course's thread list as the server sorts it (sort=new)
UpstreamList == NewestFirst({t \in Threads : upstream[t] > 0})

PAGE_LIMIT == 100

\* GET /courses/{id}/threads?limit&sort&offset&since answered by a server that
\* honours offset and limit; honoursSince tells whether it applies `since`
ServerPage(list, offset, limit, sinceDate, honoursSince) ==
  LET all == IF honoursSince /\ IsSome(sinceDate)
             THEN SelectSeq(list, LAMBDA th : th.updated_at >= Val(sinceDate))
             ELSE list
      last == IF offset + limit < Len(all) THEN offset + limit ELSE Len(all)
  IN SubSeq(all, offset + 1, last)

\* variant: the page is taken as the server sent it
getCourseThreadsSince_Unfiltered(page, sinceDate) == page

\* the filter of getCourseThreadsSince on the page it received
getCourseThreadsSince(page, sinceDate) ==
  SelectSeq(page, LAMBDA th : th.updated_at >= sinceDate)

RECURSIVE getAllCourseThreadsFrom(_, _, _, _)
\* the loop of getAllCourseThreads from `offset` on, against ServerPage
getAllCourseThreadsFrom(list, sinceDate, honoursSince, offset) ==
  LET page == ServerPage(list, offset, PAGE_LIMIT, sinceDate, honoursSince)
      response == IF IsSome(sinceDate)
                  THEN getCourseThreadsSince(page, Val(sinceDate))
                  ELSE page
  IN IF Len(response) = 0 THEN <<>>
     ELSE IF Len(response) < PAGE_LIMIT THEN response
     ELSE response \o getAllCourseThreadsFrom(list, sinceDate, honoursSince,
                                              offset + Len(response))

getAllCourseThreads(list, sinceDate, honoursSince) ==
  getAllCourseThreadsFrom(list, sinceDate, honoursSince, 0)

\* withRetry(getThreadDetails): it throws when the first maxRetries attempts
\* all fail
withRetryThrows(failingAttempts, maxRetries) == failingAttempts >= maxRetries

FULL_CONCURRENCY == 50
DELTA_CONCURRENCY == 30

\* one batch of the enrichment: the outcome of thread k of the list
BatchDetails(threads, from, to, failing) ==
  LET ok == SelectSeq([k \in 1..(to - from + 1) |-> from + k - 1],
                      LAMBDA k : ~withRetryThrows(failing[k], MAX_RETRIES))
  IN [k \in 1..Len(ok) |-> ThreadDetailsOf(threads[ok[k]].id, upstream[threads[ok[k]].id])]

\* variant: the threads whose fetch failed are dropped from the record
BatchFailed_Dropped(threads, from, to, failing) == <<>>

BatchFailed(threads, from, to, failing) ==
  LET bad == SelectSeq([k \in 1..(to - from + 1) |-> from + k - 1],
                       LAMBDA k : withRetryThrows(failing[k], MAX_RETRIES))
  IN [k \in 1..Len(bad) |-> threads[bad[k]].id]

RECURSIVE enrichFrom(_, _, _, _)
\* the batch loop of syncCourseVectors from index i on; failing[k] is the
\* number of attempts of getThreadDetails that fail for thread k of the list
enrichFrom(threads, i, concurrency, failing) ==
  IF i >= Len(threads) THEN [threadDetails |-> <<>>, failedThreads |-> <<>>]
  ELSE LET to == IF i + concurrency < Len(threads) THEN i + concurrency ELSE Len(threads)
           rest == enrichFrom(threads, i + concurrency, concurrency, failing)
       IN [threadDetails |-> BatchDetails(threads, i + 1, to, failing) \o rest.threadDetails,
           failedThreads |-> BatchFailed(threads, i + 1, to, failing) \o rest.failedThreads]

\* the sinceDate syncCourseVectors works with on its delta path
deltaDate(sinceDate) ==
  OrElse(sinceDate, Some(now - DEFAULT_LOOKBACK_DAYS * MILLISECONDS_PER_DAY))

\* variant: a delta sync stays a delta sync when no sync has succeeded yet
SyncOptions_NoFallback(syncType, forceFullSync, lastSuccessfulSyncAt) ==
  IF syncType = "full" \/ forceFullSync
  THEN [forceFullSync |-> TRUE, sinceDate |-> NONE]
  ELSE [forceFullSync |-> FALSE, sinceDate |-> lastSuccessfulSyncAt]

\* the options performCourseSync passes to syncCourseVectors
SyncOptions(syncType, forceFullSync, lastSuccessfulSyncAt) ==
  IF syncType = "full" \/ forceFullSync
  THEN [forceFullSync |-> TRUE, sinceDate |-> NONE]
  ELSE IF IsSome(lastSuccessfulSyncAt) /\ Val(lastSuccessfulSyncAt) # 0
       THEN [forceFullSync |-> FALSE, sinceDate |-> lastSuccessfulSyncAt]
       ELSE [forceFullSync |-> TRUE, sinceDate |-> NONE]

\* the thread list syncCourseVectors fetches
syncListThreads(options, honoursSince) ==
  IF options.forceFullSync THEN getAllCourseThreads(UpstreamList, NONE, honoursSince)
  ELSE getAllCourseThreads(UpstreamList, deltaDate(options.sinceDate), honoursSince)

\* enrichment of the fetched list
syncEnrich(options, threads, failing) ==
  enrichFrom(threads, 0,
             IF options.forceFullSync THEN FULL_CONCURRENCY ELSE DELTA_CONCURRENCY,
             failing)

\* the upsert that ends syncCourseVectors
syncUpsert(options, threadDetails, failingChunks) ==
  IF options.forceFullSync THEN upsertThreadsBatch(threadDetails, failingChunks)
  ELSE deltaSyncCourse(threadDetails, Val(deltaDate(options.sinceDate)), failingChunks)

\* ------------------------------------------------------------- environment
\* getUserCourses succeeds for a valid token only
getUserCoursesThrows(edToken) == edToken # "ok"

TokenErrorText == "Failed to fetch from Ed API: Ed API error (401): unauthorized"
ListErrorText == "Failed to fetch from Ed API: Ed API error (500): unavailable"

MaxChunks == 1
FailingChunkSets == SUBSET (0 .. MaxChunks - 1)
\* how many attempts of one thread's detail fetch fail: none or all of them
FailingAttempts(n) == [1..n -> {0, MAX_RETRIES}]
NoFailingAttempts(n) == {[k \in 1..n |-> 0]}

\* ------------------------------------------------------ performCourseSync
NoResult == [upserted |-> 0, errors |-> <<>>]
NoOptions == [forceFullSync |-> FALSE, sinceDate |-> NONE]

NewWorkflow(courseId, syncType, forceFullSync, edToken) ==
  [courseId |-> courseId, syncType |-> syncType, forceFullSync |-> forceFullSync,
   edToken |-> edToken, pc |-> "scheduled", ts |-> 0, error |-> "",
   currentState |-> NONE, options |-> NoOptions, fetchedAt |-> 0,
   threads |-> <<>>, detailIds |-> <<>>, failedThreads |-> <<>>,
   result |-> NoResult]

\* what is left of a workflow whose step has returned or thrown
Finished(wf, pc) ==
  [NewWorkflow(wf.courseId, "full", FALSE, "") EXCEPT !.pc = pc]

WorkflowIds == 1..Len(workflows)
Running(w) == workflows[w].pc \notin {"returned", "thrown"}

\* the sync goes on to its `syncing` write without the identity call
TokenCheck_Skipped(wf) == [wf EXCEPT !.pc = "markSyncing", !.ts = now]

\* "Quick validation of ED token before starting sync"
TokenCheck(wf) ==
  IF getUserCoursesThrows(wf.edToken)
  THEN [wf EXCEPT !.pc = "markFailed",
                  !.error = "Invalid ED token: " \o TokenErrorText]
  ELSE [wf EXCEPT !.pc = "markSyncing", !.ts = now]

\* the step starts: the token checks
PerformValidate(w) ==
  /\ workflows[w].pc = "scheduled"
  /\ workflows' =
       [workflows EXCEPT ![w] =
          IF @.edToken = "" THEN Finished(@, "thrown") ELSE TokenCheck(@)]
  /\ UNCHANGED <<now, courseSyncStates, nextDocId, calls, upstream, vectors, lastFetchedAt, pager, otherNamespaces, returned, retry, healthCheck, batchRun>>

\* "Update state to syncing"
PerformMarkSyncing(w) ==
  /\ workflows[w].pc = "markSyncing"
  /\ updateSyncState([Args(workflows[w].courseId, "syncing", workflows[w].syncType)
                        EXCEPT !.lastSyncAt = Some(workflows[w].ts)])
  /\ workflows' = [workflows EXCEPT ![w].pc = "readState"]
  /\ UNCHANGED <<now, calls, upstream, vectors, lastFetchedAt, pager, otherNamespaces, returned, retry, healthCheck, batchRun>>

\* "Get current sync state to determine sync strategy"
PerformReadState(w) ==
  /\ workflows[w].pc = "readState"
  /\ LET state == getCourseSyncState(workflows[w].courseId)
     IN workflows' =
          [workflows EXCEPT ![w].pc = "fetch",
                            ![w].currentState =
                               IF IsSome(state) THEN Val(state).lastSuccessfulSyncAt
                               ELSE NONE]
  /\ UNCHANGED <<now, courseSyncStates, nextDocId, calls, upstream, vectors, lastFetchedAt, pager, otherNamespaces, returned, retry, healthCheck, batchRun>>

\* syncCourseVectors up to the return of getAllCourseThreads
PerformFetch(w, listThrows, honoursSince) ==
  /\ workflows[w].pc = "fetch"
  /\ LET wf == workflows[w]
         options == SyncOptions(wf.syncType, wf.forceFullSync, wf.currentState)
     IN workflows' =
          [workflows EXCEPT ![w] =
             IF listThrows
             THEN [@ EXCEPT !.pc = "markFailed", !.error = ListErrorText]
             ELSE [@ EXCEPT !.pc = "enrich", !.options = options,
                            !.fetchedAt = now,
                            !.threads = syncListThreads(options, honoursSince)]]
  /\ UNCHANGED <<now, courseSyncStates, nextDocId, calls, upstream, vectors, lastFetchedAt, pager, otherNamespaces, returned, retry, healthCheck, batchRun>>

\* the rest of syncCourseVectors: the detail fetches and the upsert
PerformEnrich(w, failing, failingChunks) ==
  /\ workflows[w].pc = "enrich"
  \* GET /threads/{id} of a thread deleted since the list was fetched fails
  /\ \A k \in 1..Len(workflows[w].threads) :
        upstream[workflows[w].threads[k].id] = 0 => failing[k] = MAX_RETRIES
  /\ LET wf == workflows[w]
         e == syncEnrich(wf.options, wf.threads, failing)
         r == syncUpsert(wf.options, e.threadDetails, failingChunks)
     IN /\ vectors' = UpsertAll(vectors, r.written)
        /\ workflows' =
             [workflows EXCEPT ![w].pc = "markCompleted",
                               ![w].ts = now,
                               ![w].detailIds =
                                  [k \in 1..Len(e.threadDetails) |-> e.threadDetails[k].id],
                               ![w].failedThreads = e.failedThreads,
                               ![w].result = [upserted |-> r.upserted, errors |-> r.errors]]
  /\ UNCHANGED <<now, courseSyncStates, nextDocId, calls, upstream, lastFetchedAt, pager, otherNamespaces, returned, retry, healthCheck, batchRun>>

\* the arguments of the "Update state to completed" write
CompletedArgs(wf) ==
  [Args(wf.courseId, "completed", wf.syncType)
     EXCEPT !.lastSuccessfulSyncAt = Some(wf.ts),
            !.syncedThreads = Some(wf.result.upserted),
            !.errorMessage = IF Len(wf.result.errors) > 0
                             THEN Some(Join(wf.result.errors, "; "))
                             ELSE NONE]

PerformMarkCompleted(w) ==
  /\ workflows[w].pc = "markCompleted"
  /\ updateSyncState(CompletedArgs(workflows[w]))
  /\ workflows' = [workflows EXCEPT ![w] = Finished(@, "returned")]
  /\ lastFetchedAt' = [lastFetchedAt EXCEPT ![workflows[w].courseId] =
                                          Some(workflows[w].fetchedAt)]
  /\ UNCHANGED <<now, calls, upstream, vectors, pager, otherNamespaces, returned, retry, healthCheck, batchRun>>

\* the arguments of the "Update state to failed" write of the catch block
FailedArgs(wf) ==
  [Args(wf.courseId, "failed", wf.syncType) EXCEPT !.errorMessage = Some(wf.error)]

PerformMarkFailed(w) ==
  /\ workflows[w].pc = "markFailed"
  /\ updateSyncState(FailedArgs(workflows[w]))
  /\ workflows' = [workflows EXCEPT ![w] = Finished(@, "thrown")]
  /\ UNCHANGED <<now, calls, upstream, vectors, lastFetchedAt, pager, otherNamespaces, returned, retry, healthCheck, batchRun>>

\* ------------------------------------------------------------ the triggers
\* a call that has been invoked and has still to start its workflow
Starting(k) == calls[k].pc \in {"deleteVectors", "resetState", "query", "startWorkflow"}

\* the model starts at most MaxWorkflows workflows
CanStart ==
  Len(workflows) + Cardinality({k \in 1..Len(calls) : Starting(k)}) < MaxWorkflows

\* the state the syncing check of the triggers reads
AlreadySyncing(courseId) ==
  LET existingState == getCourseSyncState(courseId)
  IN IsSome(existingState) /\ Val(existingState).status = "syncing"

\* the mutation startCourseSync: one transaction; it throws, and changes
\* nothing, when a sync is in progress
startCourseSync(courseId, syncType, forceFullSync, edToken) ==
  /\ CanStart
  /\ ~AlreadySyncing(courseId)
  /\ workflows' = Append(workflows, NewWorkflow(courseId, syncType, forceFullSync, edToken))
  /\ updateSyncState([Args(courseId, "syncing", syncType)
                        EXCEPT !.workflowId = Some(Len(workflows) + 1),
                               !.lastSyncAt = Some(now)])
  /\ UNCHANGED <<now, calls, upstream, vectors, lastFetchedAt, pager, otherNamespaces, returned, retry, healthCheck, batchRun>>

\* GET /user as getUserCourses parses it: the courses of the current year
EnrolledCourses ==
  <<[id |-> 1, status |-> "active", currentYear |-> TRUE],
    [id |-> 2, status |-> "archived", currentYear |-> TRUE],
    [id |-> 3, status |-> "active", currentYear |-> FALSE]>>

getUserCourses == SelectSeq(EnrolledCourses, LAMBDA c : c.currentYear)

\* userData.courses.filter(c => c.course.status === 'active')
activeCourses == SelectSeq(getUserCourses, LAMBDA c : c.status = "active")

NewCall(kind, courseId, syncType, forceFullSync, edToken, pc) ==
  [kind |-> kind, courseId |-> courseId, syncType |-> syncType,
   forceFullSync |-> forceFullSync, edToken |-> edToken, pc |-> pc,
   i |-> 1, workflowId |-> 0, ts |-> 0, workflowIds |-> <<>>, success |-> FALSE]

\* ---- syncAllActiveCourses: an action, each ctx.run* its own transaction
\* The call throws before it changes anything unless the token is valid.
syncAllActiveCourses(syncType, forceFullSync, edToken) ==
  /\ CanStart
  /\ Len(calls) < MaxCalls
  /\ edToken # "" /\ ~getUserCoursesThrows(edToken)
  /\ calls' = Append(calls,
                     NewCall("syncAll", 0, syncType, forceFullSync, edToken,
                             IF Len(activeCourses) = 0 THEN "returned" ELSE "query"))
  /\ UNCHANGED <<now, courseSyncStates, nextDocId, workflows, upstream, vectors, lastFetchedAt, pager, otherNamespaces, returned, retry, healthCheck, batchRun>>

\* what is left of a call that has returned
Returned(call, success) ==
  [NewCall(call.kind, 0, "full", FALSE, "", "returned") EXCEPT !.success = success]

\* the end of one iteration of the loop over activeCourses
NextCourse(call) ==
  IF call.i + 1 > Len(activeCourses) THEN Returned(call, TRUE)
  ELSE [call EXCEPT !.i = @ + 1, !.pc = "query"]

\* "Check if there's already a sync running for this course"
SyncAllQuery(k) ==
  /\ calls[k].kind = "syncAll" /\ calls[k].pc = "query"
  /\ calls' = [calls EXCEPT ![k] =
                 IF AlreadySyncing(activeCourses[@.i].id) THEN NextCourse(@)
                 ELSE [@ EXCEPT !.pc = "startWorkflow"]]
  /\ UNCHANGED <<now, courseSyncStates, nextDocId, workflows, upstream, vectors, lastFetchedAt, pager, otherNamespaces, returned, retry, healthCheck, batchRun>>

\* workflow.start
SyncAllStart(k) ==
  /\ calls[k].kind = "syncAll" /\ calls[k].pc = "startWorkflow"
  /\ workflows' = Append(workflows,
                         NewWorkflow(activeCourses[calls[k].i].id, calls[k].syncType,
                                     calls[k].forceFullSync, calls[k].edToken))
  /\ calls' = [calls EXCEPT ![k].pc = "markSyncing",
                            ![k].workflowId = Len(workflows) + 1,
                            ![k].ts = now]
  /\ UNCHANGED <<now, courseSyncStates, nextDocId, upstream, vectors, lastFetchedAt, pager, otherNamespaces, returned, retry, healthCheck, batchRun>>

\* "Update the sync state with workflow ID"
SyncAllMark(k) ==
  /\ calls[k].kind = "syncAll" /\ calls[k].pc = "markSyncing"
  /\ updateSyncState([Args(activeCourses[calls[k].i].id, "syncing", calls[k].syncType)
                        EXCEPT !.workflowId = Some(calls[k].workflowId),
                               !.lastSyncAt = Some(calls[k].ts)])
  /\ calls' = [calls EXCEPT ![k] =
                 NextCourse([@ EXCEPT !.workflowIds = Append(@, calls[k].workflowId)])]
  /\ UNCHANGED <<now, workflows, upstream, vectors, lastFetchedAt, pager, otherNamespaces, returned, retry, healthCheck, batchRun>>

\* ---- forceFullResync: an action, each ctx.run* its own transaction
forceFullResync(courseId, edToken) ==
  /\ CanStart
  /\ Len(calls) < MaxCalls
  /\ calls' = Append(calls, NewCall("forceFull", courseId, "full", TRUE, edToken,
                                    "deleteVectors"))
  /\ UNCHANGED <<now, courseSyncStates, nextDocId, workflows, upstream, vectors, lastFetchedAt, pager, otherNamespaces, returned, retry, healthCheck, batchRun>>

\* the deletion step without the try around it: a rejected deletion goes on
ForceDelete_Continue(k, throws) ==
  /\ calls[k].kind = "forceFull" /\ calls[k].pc = "deleteVectors"
  /\ calls' = [calls EXCEPT ![k].pc = "resetState"]
  /\ vectors' = IF throws THEN vectors ELSE {}
  /\ UNCHANGED <<now, courseSyncStates, nextDocId, workflows, upstream, lastFetchedAt, pager, otherNamespaces, returned, retry, healthCheck, batchRun>>

\* "Step 1: Delete existing vectors"; a rejected reset ends the call
ForceDelete(k, throws) ==
  /\ calls[k].kind = "forceFull" /\ calls[k].pc = "deleteVectors"
  /\ IF throws
     THEN /\ calls' = [calls EXCEPT ![k] = Returned(@, FALSE)]
          /\ vectors' = vectors
     ELSE /\ calls' = [calls EXCEPT ![k].pc = "resetState"]
          /\ vectors' = {}
  /\ UNCHANGED <<now, courseSyncStates, nextDocId, workflows, upstream, lastFetchedAt, pager, otherNamespaces, returned, retry, healthCheck, batchRun>>

\* "Step 2: Reset sync state"
ForceReset(k) ==
  /\ calls[k].kind = "forceFull" /\ calls[k].pc = "resetState"
  /\ updateSyncState([Args(calls[k].courseId, "idle", "full")
                        EXCEPT !.syncedThreads = Some(0), !.totalThreads = Some(0)])
  /\ calls' = [calls EXCEPT ![k].pc = "startWorkflow"]
  /\ UNCHANGED <<now, workflows, upstream, vectors, lastFetchedAt, pager, otherNamespaces, returned, retry, healthCheck, batchRun>>

\* "Step 3: Start fresh full sync workflow"
ForceStart(k) ==
  /\ calls[k].kind = "forceFull" /\ calls[k].pc = "startWorkflow"
  /\ workflows' = Append(workflows,
                         NewWorkflow(calls[k].courseId, "full", TRUE, calls[k].edToken))
  /\ calls' = [calls EXCEPT ![k].pc = "markSyncing",
                            ![k].workflowId = Len(workflows) + 1,
                            ![k].ts = now]
  /\ UNCHANGED <<now, courseSyncStates, nextDocId, upstream, vectors, lastFetchedAt, pager, otherNamespaces, returned, retry, healthCheck, batchRun>>

\* "Step 4: Update sync state with new workflow"
ForceMark(k) ==
  /\ calls[k].kind = "forceFull" /\ calls[k].pc = "markSyncing"
  /\ updateSyncState([Args(calls[k].courseId, "syncing", "full")
                        EXCEPT !.workflowId = Some(calls[k].workflowId),
                               !.lastSyncAt = Some(calls[k].ts)])
  /\ calls' = [calls EXCEPT ![k] = Returned(@, TRUE)]
  /\ UNCHANGED <<now, workflows, upstream, vectors, lastFetchedAt, pager, otherNamespaces, returned, retry, healthCheck, batchRun>>

\* the catch of forceFullResync: step 2, 3 or 4 throws and the call returns
\* {success: false, message}
ForceCatch(k) ==
  /\ calls[k].kind = "forceFull"
  /\ calls[k].pc \in {"resetState", "startWorkflow", "markSyncing"}
  /\ calls' = [calls EXCEPT ![k] = Returned(@, FALSE)]
  /\ UNCHANGED <<now, courseSyncStates, nextDocId, workflows, upstream, vectors, lastFetchedAt, pager, otherNamespaces, returned, retry, healthCheck, batchRun>>

\* ---- the maintenance mutations
\* q.lt(q.field(f), n): a missing field sorts before every number
\* the comparison that also holds at the bound
FieldLt_OrEqual(field, n) == field = NONE \/ Val(field) <= n

\* q.lt(q.field(...), n): a missing field is below every number
FieldLt(field, n) == field = NONE \/ Val(field) < n

StuckSyncs(maxHours) ==
  LET cutoffTime == now - OrElse(maxHours, Some(DEFAULT_STUCK_SYNC_HOURS))[1]
                            * MILLISECONDS_PER_HOUR
  IN {d \in courseSyncStates : d.status = "syncing" /\ FieldLt(d.lastSyncAt, cutoffTime)}

ResetDoc(d) ==
  [d EXCEPT !.status = "failed",
            !.errorMessage = Some("Sync timed out - reset by cleanup")]

resetStuckSyncs(maxHours) ==
  /\ courseSyncStates' =
       (courseSyncStates \ StuckSyncs(maxHours))
          \cup {ResetDoc(d) : d \in StuckSyncs(maxHours)}
  /\ UNCHANGED <<now, nextDocId, workflows, calls, upstream, vectors, lastFetchedAt, pager, otherNamespaces, returned, retry, healthCheck, batchRun>>

\* the model deletes at most MaxDeletes documents
Deleted == nextDocId - 1 - Cardinality(courseSyncStates)

deleteCourseSync(courseId) ==
  /\ Deleted < MaxDeletes
  /\ IsSome(getCourseSyncState(courseId))
  /\ courseSyncStates' = courseSyncStates \ {Val(getCourseSyncState(courseId))}
  /\ UNCHANGED <<now, nextDocId, workflows, calls, upstream, vectors, lastFetchedAt, pager, otherNamespaces, returned, retry, healthCheck, batchRun>>

\* time passes, up to the bound max
TickTo(max) ==
  /\ now < max
  /\ now' = now + 1
  /\ UNCHANGED <<courseSyncStates, nextDocId, workflows, calls, upstream, vectors, lastFetchedAt, pager, otherNamespaces, returned, retry, healthCheck, batchRun>>

\* ------------------------------------------ getAllCourseThreads, stepwise
MaxThreads == 250
MaxPages == 202
SAFETY_CAP == 20000

\* "offset": the client the orchestrator imports; "sort_key": the client that
\* pages by the cursor of the previous response and has a safety break
Variants == {"offset", "sort_key"}

\* "honest" honours offset, cursor and limit; "full" answers every request
\* with a full page; "lax" honours offset and limit and ignores `since`
Servers == {"honest", "full"}

\* the thread list of a course of n threads, none of them changing
PagerList(n) == [i \in 1..n |-> [id |-> n + 1 - i, updated_at |-> 1]]

\* the list with the threads of `old` last edited at time 0
Aged(list, old) ==
  [i \in 1..Len(list) |-> IF list[i].id \in old
                          THEN [list[i] EXCEPT !.updated_at = 0] ELSE list[i]]

\* the page of a server that returns `limit` threads whatever is asked
FullPage(list, offset, limit) ==
  [i \in 1..limit |-> list[((offset + i - 1) % Len(list)) + 1]]

\* the locals of getAllCourseThreads before its loop; users are left out
NoPager ==
  [variant |-> "offset", server |-> "honest", total |-> 0, old |-> {},
   sinceDate |-> NONE, offset |-> 0, sortKey |-> NONE, totalFetched |-> 0, pageCount |-> 0,
   allThreads |-> <<>>, inflight |-> NONE, requests |-> <<>>, done |-> TRUE]

NewPager(variant, server, total, sinceDate) ==
  [NoPager EXCEPT !.variant = variant, !.server = server, !.total = total,
                  !.sinceDate = sinceDate, !.done = FALSE]

\* the position in the list a request asks for
Position(request) ==
  IF IsSome(request.offset) THEN Val(request.offset) ELSE OrElse(request.sort_key, <<0>>)[1]

\* the threads the server sends for the request in flight
ServerAnswer(pg) ==
  LET request == Val(pg.inflight)
      list == Aged(PagerList(pg.total), pg.old)
  IN IF pg.server = "honest"
     THEN ServerPage(list, Position(request), request.limit, pg.sinceDate, TRUE)
     ELSE IF pg.server = "lax"
     THEN ServerPage(list, Position(request), request.limit, pg.sinceDate, FALSE)
     ELSE FullPage(list, Position(request), request.limit)

\* variant: the offset is not moved
NextOffset_Stale(offset, response) == offset

\* offset += response.threads.length
NextOffset(offset, response) == offset + Len(response)

\* the top of the loop: build the options and send the request
PageRequest ==
  /\ ~pager.done
  /\ ~IsSome(pager.inflight)
  /\ Len(pager.requests) < MaxPages
  /\ pager' = [pager EXCEPT
       !.pageCount = IF pager.variant = "offset" THEN @ + 1 ELSE @,
       !.inflight = Some([limit |-> PAGE_LIMIT,
                          offset |-> IF pager.variant = "offset"
                                     THEN Some(pager.offset) ELSE NONE,
                          sort_key |-> IF pager.variant = "offset"
                                       THEN NONE ELSE pager.sortKey])]

\* the rest of the loop body, run when the awaited response arrives
PageResponse ==
  /\ IsSome(pager.inflight)
  /\ LET request == Val(pager.inflight)
         page == ServerAnswer(pager)
         threads == IF IsSome(pager.sinceDate)
                    THEN getCourseThreadsSince(page, Val(pager.sinceDate))
                    ELSE page
         logged == Append(pager.requests,
                          [limit |-> request.limit, offset |-> request.offset,
                           sort_key |-> request.sort_key, received |-> Len(threads)])
         totalFetched == pager.totalFetched + Len(threads)
     IN pager' =
          IF Len(threads) = 0
          THEN [pager EXCEPT !.inflight = NONE, !.requests = logged, !.done = TRUE]
          ELSE [pager EXCEPT
                  !.inflight = NONE,
                  !.requests = logged,
                  !.allThreads = @ \o threads,
                  !.totalFetched = totalFetched,
                  !.offset = IF pager.variant = "offset"
                             THEN NextOffset(@, threads) ELSE @,
                  !.sortKey = IF pager.variant = "offset"
                              THEN @ ELSE Some(Position(request) + Len(page)),
                  !.done = \/ Len(threads) < PAGE_LIMIT
                           \/ pager.variant = "sort_key" /\ totalFetched > SAFETY_CAP]

\* ------------------------------------------------------ withRetry, stepwise
MaxAttempts == 5
DEFAULT_MAX_RETRIES == 5
BASE_WAIT_MS == 100
RATE_LIMIT_WAIT_MS == 2000

\* String.prototype.includes
includes(str, sub) ==
  \E i \in 1..(Len(str) - Len(sub) + 1) : SubSeq(str, i, i + Len(sub) - 1) = sub

\* messages of the errors an operation is rejected with
ErrorMessages ==
  {"Failed to fetch from Ed API: Ed API error (500): unavailable",
   "Failed to fetch from Ed API: Ed API error (429): slow down",
   "Failed to fetch from Ed API: too many requests, rate limited",
   "Failed to fetch from Ed API: connect ETIMEDOUT",
   "Failed to fetch from Ed API: Ed API error (429): timeout waiting for quota"}

isRateLimit(message) == includes(message, "429") \/ includes(message, "rate")
isTimeout(message) == includes(message, "timeout") \/ includes(message, "ETIMEDOUT")

RECURSIVE Pow2(_)
\* Math.pow(2, n)
Pow2(n) == IF n <= 0 THEN 1 ELSE 2 * Pow2(n - 1)

\* Math.max
Max2(a, b) == IF a >= b THEN a ELSE b

\* the backoff without the doubling
waitTime_Linear(message, attempt) ==
  LET backoff == BASE_WAIT_MS * attempt
      floored == IF isRateLimit(message) THEN Max2(backoff, RATE_LIMIT_WAIT_MS)
                 ELSE backoff
  IN IF isTimeout(message) /\ attempt = 1 THEN 0 ELSE floored

\* what withRetry waits after the failed attempt `attempt`
waitTime(message, attempt) ==
  LET backoff == BASE_WAIT_MS * Pow2(attempt - 1)
      floored == IF isRateLimit(message) THEN Max2(backoff, RATE_LIMIT_WAIT_MS)
                 ELSE backoff
  IN IF isTimeout(message) /\ attempt = 1 THEN 0 ELSE floored

\* the locals of withRetry before its loop
NoRetry ==
  [maxRetries |-> 0, attempt |-> 0, lastError |-> NONE, log |-> <<>>,
   pc |-> "idle", value |-> NONE, thrown |-> NONE]

NewRetry(maxRetries) == [NoRetry EXCEPT !.maxRetries = maxRetries, !.attempt = 1,
                                        !.pc = "attempt"]

\* "if (attempt === maxRetries) break"
IsLastAttempt_Early(attempt, maxRetries) == attempt = maxRetries - 1

IsLastAttempt(attempt, maxRetries) == attempt = maxRetries

\* one pass of the loop: the operation is invoked and either returns, and
\* withRetry returns its value, or is rejected with an Error of this message
RetryAttempt(succeeds, message) ==
  /\ retry.pc = "attempt"
  /\ retry.attempt <= retry.maxRetries
  /\ LET attempt == retry.attempt
         error == [message |-> message, invocation |-> attempt]
         wait == waitTime(message, attempt)
     IN retry' =
          IF succeeds
          THEN [retry EXCEPT !.pc = "returned",
                             !.value = Some([invocation |-> attempt]),
                             !.log = Append(@, [attempt |-> attempt, ok |-> TRUE,
                                                message |-> "", wait |-> NONE])]
          ELSE IF IsLastAttempt(attempt, retry.maxRetries)
          THEN [retry EXCEPT !.pc = "thrown",
                             !.lastError = Some(error),
                             !.thrown = Some(error),
                             !.log = Append(@, [attempt |-> attempt, ok |-> FALSE,
                                                message |-> message, wait |-> NONE])]
          ELSE [retry EXCEPT !.pc = IF wait > 0 THEN "waiting" ELSE "attempt",
                             !.attempt = IF wait > 0 THEN @ ELSE @ + 1,
                             !.lastError = Some(error),
                             !.log = Append(@, [attempt |-> attempt, ok |-> FALSE,
                                                message |-> message,
                                                wait |-> Some(wait)])]

\* the timer of the wait fires: the loop goes on with the next attempt
RetryWake ==
  /\ retry.pc = "waiting"
  /\ retry' = [retry EXCEPT !.pc = "attempt", !.attempt = @ + 1]

\* ------------------------------------------------------- the health check
HEALTH_CHECK_TIMEOUT_MS == 10000

\* no health check under way; startedAt is when the timer was started
NoHealthCheck ==
  [pc |-> "idle", edToken |-> <<>>, startedAt |-> 0, resolvedAt |-> 0,
   answer |-> "none", result |-> NONE]

\* the model's clock of the health check advances by HealthStep up to
\* MaxHealthTime
HealthStep == 5000
MaxHealthTime == 30000

\* tokens as texts: none, blank ones, the accepted one, rejected ones
AcceptedToken == <<"o", "k">>
HealthTokens ==
  {<<>>, <<" ">>, <<" ", "\t">>, AcceptedToken, <<"b", "a", "d">>, <<" ", "o", "k">>}

\* !args.edToken || args.edToken.trim() === ""
isBlankToken(edToken) == edToken = <<>> \/ trim(edToken) = <<>>

ConfigErrorText == "Missing required environment variable: UPSTASH_VECTOR_REST_URL"
TimeoutErrorText == "Health check timeout - invalid token or network issue"

HealthResult(isHealthy, message, coursesCount) ==
  [isHealthy |-> isHealthy, message |-> message, coursesCount |-> coursesCount]

Resolved(h, answer, result) ==
  [h EXCEPT !.pc = "resolved", !.resolvedAt = now, !.answer = answer,
            !.result = Some(result)]

\* getHealthStatus up to its call of the internal action; the model calls it
\* up to MaxHealthTime
GetHealthStatus(edToken) ==
  /\ healthCheck.pc \in {"idle", "resolved"}
  /\ now <= MaxHealthTime
  /\ healthCheck' =
       IF isBlankToken(edToken)
       THEN Resolved([NoHealthCheck EXCEPT !.edToken = edToken], "none", HealthResult(FALSE, "ED token not configured", NONE))
       ELSE [NoHealthCheck EXCEPT !.pc = "performHealthCheck", !.edToken = edToken]
  /\ UNCHANGED <<now, courseSyncStates, nextDocId, workflows, calls, upstream, vectors, lastFetchedAt, pager, otherNamespaces, returned, retry, batchRun>>

\* performHealthCheck up to Promise.race: the token check, the vector
\* configuration (which throws when a variable is missing), the timer
PerformHealthCheck(configThrows) ==
  /\ healthCheck.pc = "performHealthCheck"
  /\ healthCheck' =
       IF isBlankToken(healthCheck.edToken)
       THEN Resolved(healthCheck, "none",
                     HealthResult(FALSE, "ED token is required", NONE))
       ELSE IF configThrows
       THEN Resolved(healthCheck, "none", HealthResult(FALSE, ConfigErrorText, NONE))
       ELSE [healthCheck EXCEPT !.pc = "racing", !.startedAt = now]
  /\ UNCHANGED <<now, courseSyncStates, nextDocId, workflows, calls, upstream, vectors, lastFetchedAt, pager, otherNamespaces, returned, retry, batchRun>>

\* the timer never rejects
TimerDue_Never(h) == FALSE

\* setTimeout(() => reject(...), HEALTH_CHECK_TIMEOUT_MS) is due
TimerDue(h) == now >= h.startedAt + HEALTH_CHECK_TIMEOUT_MS

\* client.getUserCourses() settles first: the Ed API answered the identity
\* call, with the user's courses when it accepts the token, or the request
\* failed
IdentityAnswer(succeeds) ==
  /\ healthCheck.pc = "racing"
  /\ succeeds => healthCheck.edToken = AcceptedToken
  /\ healthCheck' =
       IF succeeds
       THEN Resolved(healthCheck, "success",
                     HealthResult(TRUE, "ED connection is healthy",
                                  Some(Len(getUserCourses))))
       ELSE Resolved(healthCheck, "error", HealthResult(FALSE, TokenErrorText, NONE))
  /\ UNCHANGED <<now, courseSyncStates, nextDocId, workflows, calls, upstream, vectors, lastFetchedAt, pager, otherNamespaces, returned, retry, batchRun>>

\* the timer settles first: its rejection is caught
HealthCheckTimeout ==
  /\ healthCheck.pc = "racing"
  /\ TimerDue(healthCheck)
  /\ healthCheck' =
       Resolved(healthCheck, "none", HealthResult(FALSE, TimeoutErrorText, NONE))
  /\ UNCHANGED <<now, courseSyncStates, nextDocId, workflows, calls, upstream, vectors, lastFetchedAt, pager, otherNamespaces, returned, retry, batchRun>>

\* time passes, by HealthStep or up to the moment the timer is due, up to
\* MaxHealthTime and further while a timer runs; a timer that is due fires
\* before more time passes
HealthTick ==
  /\ now + HealthStep <= MaxHealthTime \/ healthCheck.pc = "racing"
  /\ ~(healthCheck.pc = "racing" /\ TimerDue(healthCheck))
  /\ now' = IF healthCheck.pc = "racing"
             THEN Min({now + HealthStep,
                       healthCheck.startedAt + HEALTH_CHECK_TIMEOUT_MS})
             ELSE now + HealthStep
  /\ UNCHANGED <<courseSyncStates, nextDocId, workflows, calls, upstream, vectors, lastFetchedAt, pager, otherNamespaces, returned, retry, healthCheck, batchRun>>

\* ------------------------------------------------ the detail fetches, stepwise
\* The loop over the slices of the thread list in syncCourseVectors.  The
\* fetches of a slice are told apart only by number: `fetching` of them have
\* their request in flight and succeed at the first attempt; the fetch of the
\* thread at index `flaky` (none when flaky is -1) goes through withRetry as
\* the variable retry tells.
NoBatchRun ==
  [pc |-> "idle", mode |-> "full", concurrency |-> 0, length |-> 0, flaky |-> -1,
   i |-> 0, fetching |-> 0, started |-> 0, successful |-> 0, failed |-> 0]

\* threads.slice(i, i + concurrency): the indices i .. SliceEnd - 1
SliceEnd(b) == IF b.i + b.concurrency < b.length THEN b.i + b.concurrency ELSE b.length

FlakyInSlice(b) == b.flaky >= b.i /\ b.flaky < SliceEnd(b)

\* syncCourseVectors has listed `length` threads and enters the loop
StartEnrichment(mode, length, flaky) ==
  /\ batchRun.pc = "idle"
  /\ batchRun' = [NoBatchRun EXCEPT
                    !.pc = "loop", !.mode = mode, !.length = length, !.flaky = flaky,
                    !.concurrency = IF mode = "full" THEN FULL_CONCURRENCY
                                    ELSE DELTA_CONCURRENCY]
  /\ UNCHANGED <<now, courseSyncStates, nextDocId, workflows, calls, upstream, vectors, lastFetchedAt, pager, otherNamespaces, returned, retry, healthCheck>>

\* the head of the loop and batch.map: every fetch of the slice is started,
\* or the loop ends
StartSlice ==
  /\ batchRun.pc = "loop"
  /\ IF batchRun.i < batchRun.length
     THEN /\ batchRun' =
               [batchRun EXCEPT
                  !.pc = "await",
                  !.fetching = SliceEnd(batchRun) - batchRun.i
                                 - (IF FlakyInSlice(batchRun) THEN 1 ELSE 0),
                  !.started = @ + SliceEnd(batchRun) - batchRun.i]
          /\ retry' = IF FlakyInSlice(batchRun) THEN NewRetry(MAX_RETRIES) ELSE NoRetry
     ELSE /\ batchRun' = [batchRun EXCEPT !.pc = "done"]
          /\ retry' = retry
  /\ UNCHANGED <<now, courseSyncStates, nextDocId, workflows, calls, upstream, vectors, lastFetchedAt, pager, otherNamespaces, returned, healthCheck>>

\* getThreadDetails of one of the other threads returns
FetchReturns ==
  /\ batchRun.pc = "await"
  /\ batchRun.fetching > 0
  /\ batchRun' = [batchRun EXCEPT !.fetching = @ - 1, !.successful = @ + 1]
  /\ UNCHANGED <<now, courseSyncStates, nextDocId, workflows, calls, upstream, vectors, lastFetchedAt, pager, otherNamespaces, returned, retry, healthCheck>>

\* one attempt of the flaky thread's fetch, and the end of a wait
FlakyAttempt(succeeds, message) ==
  /\ batchRun.pc = "await"
  /\ RetryAttempt(succeeds, message)
  /\ UNCHANGED <<now, courseSyncStates, nextDocId, workflows, calls, upstream, vectors, lastFetchedAt, pager, otherNamespaces, returned, healthCheck, batchRun>>

FlakyWake ==
  /\ batchRun.pc = "await"
  /\ RetryWake
  /\ UNCHANGED <<now, courseSyncStates, nextDocId, workflows, calls, upstream, vectors, lastFetchedAt, pager, otherNamespaces, returned, healthCheck, batchRun>>

\* the slice goes on as soon as one of its fetches has settled
AllSettled_AnyOne(b, r) == b.fetching < SliceEnd(b) - b.i \/ r.pc \in {"returned", "thrown"}

\* Promise.all(batchPromises) resolves: every fetch of the slice has settled,
\* the flaky one by its return or by the throw after its last attempt, which
\* the catch of the batch promise turns into a result
AllSettled(b, r) ==
  /\ b.fetching = 0
  /\ FlakyInSlice(b) => r.pc \in {"returned", "thrown"}

\* the rest of the loop body: the results are collected and i moves on
CollectSlice ==
  /\ batchRun.pc = "await"
  /\ AllSettled(batchRun, retry)
  /\ batchRun' = [batchRun EXCEPT
                    !.pc = "loop",
                    !.i = @ + batchRun.concurrency,
                    !.successful = @ + (IF retry.pc = "returned" THEN 1 ELSE 0),
                    !.failed = @ + (IF retry.pc = "thrown" THEN 1 ELSE 0)]
  /\ retry' = NoRetry
  /\ UNCHANGED <<now, courseSyncStates, nextDocId, workflows, calls, upstream, vectors, lastFetchedAt, pager, otherNamespaces, returned, healthCheck>>

\* ------------------------------------------------------------ specification
InitSync ==
  /\ now = 1
  /\ courseSyncStates = {}
  /\ nextDocId = 1
  /\ workflows = <<>>
  /\ calls = <<>>
  /\ vectors = {}
  /\ otherNamespaces = [name \in OtherNamespaceNames |-> {}]
  /\ returned = NoCall
  /\ lastFetchedAt = [c \in Courses |-> NONE]

\* the course starts with thread 1, created at time 1
Init ==
  /\ InitSync
  /\ upstream = [t \in Threads |-> IF t = 1 THEN 1 ELSE 0]
  /\ pager = NoPager
  /\ retry = NoRetry
  /\ healthCheck = NoHealthCheck
  /\ batchRun = NoBatchRun

PerformStep(w) ==
  \/ PerformValidate(w)
  \/ PerformMarkSyncing(w)
  \/ PerformReadState(w)
  \/ \E listThrows \in BOOLEAN, honoursSince \in BOOLEAN :
        PerformFetch(w, listThrows, honoursSince)
  \/ \E failing \in FailingAttempts(Len(workflows[w].threads)),
        failingChunks \in FailingChunkSets :
        PerformEnrich(w, failing, failingChunks)
  \/ PerformMarkCompleted(w)
  \/ PerformMarkFailed(w)

CallStep(k) ==
  \/ SyncAllQuery(k)
  \/ SyncAllStart(k)
  \/ SyncAllMark(k)
  \/ \E throws \in BOOLEAN : ForceDelete(k, throws)
  \/ ForceReset(k)
  \/ ForceStart(k)
  \/ ForceMark(k)

Next ==
  \/ TickTo(MaxTime)
  \/ \E c \in Courses, m \in SyncModes, tok \in Tokens :
        startCourseSync(c, m[1], m[2], tok)
  \/ \E w \in WorkflowIds : PerformStep(w)
  \/ \E m \in SyncModes, tok \in Tokens : syncAllActiveCourses(m[1], m[2], tok)
  \/ \E c \in Courses, tok \in Tokens : forceFullResync(c, tok)
  \/ \E k \in 1..Len(calls) : CallStep(k)
  \/ \E maxHours \in {NONE, Some(0)} : resetStuckSyncs(maxHours)
  \/ \E c \in Courses : deleteCourseSync(c)

Spec == Init /\ [][Next]_vars

\* ---------------------------------------------- sequential syncs of a course
\* The Ed API side: thread t is created or edited now.
UpstreamUpdate(t) ==
  /\ upstream[t] # now
  /\ upstream' = [upstream EXCEPT ![t] = now]
  /\ UNCHANGED <<now, courseSyncStates, nextDocId, workflows, calls, vectors, lastFetchedAt, pager, otherNamespaces, returned, retry, healthCheck, batchRun>>

\* Syncs started by startCourseSync alone, against a course whose threads are
\* created and edited while the syncs run.
NextDelta ==
  \/ TickTo(MaxDeltaTime)
  \/ \E t \in Threads : UpstreamUpdate(t)
  \/ \E c \in Courses, m \in SyncModes, tok \in Tokens :
        startCourseSync(c, m[1], m[2], tok)
  \/ \E w \in WorkflowIds : PerformStep(w)

SpecDelta == Init /\ [][NextDelta]_vars

\* ------------------------------------------- syncs of a course, one by one
\* The course holds any of the threads, none of them edited while syncs run.
InitSeq ==
  /\ InitSync
  /\ pager = NoPager
  /\ retry = NoRetry
  /\ healthCheck = NoHealthCheck
  /\ batchRun = NoBatchRun
  /\ upstream \in [Threads -> {0, 1}]

\* startCourseSync called once the workflows started before have finished
NextSync(courseId, syncType, forceFullSync, edToken) ==
  /\ \A w \in WorkflowIds : ~Running(w)
  /\ startCourseSync(courseId, syncType, forceFullSync, edToken)

NextSeq ==
  \/ TickTo(MaxTime)
  \/ \E c \in Courses, m \in SyncModes, tok \in Tokens : NextSync(c, m[1], m[2], tok)
  \/ \E w \in WorkflowIds : PerformStep(w)

SpecSeq == InitSeq /\ [][NextSeq]_vars

\* -------------------------------------------- one run of getAllCourseThreads
syncVars == <<now, courseSyncStates, nextDocId, workflows, calls, upstream, vectors,
              lastFetchedAt>>

InitPages ==
  /\ InitSync
  /\ retry = NoRetry
  /\ healthCheck = NoHealthCheck
  /\ batchRun = NoBatchRun
  /\ upstream = [t \in Threads |-> 0]
  /\ pager \in {NewPager(v, "honest", n, since) :
                  v \in Variants, n \in 0..MaxThreads, since \in {NONE, Some(1)}}
               \cup {NewPager(v, "full", PAGE_LIMIT, NONE) : v \in Variants}

NextPages ==
  \/ PageRequest /\ UNCHANGED <<syncVars, otherNamespaces, returned, retry, healthCheck, batchRun>>
  \/ PageResponse /\ UNCHANGED <<syncVars, otherNamespaces, returned, retry, healthCheck, batchRun>>

SpecPages == InitPages /\ [][NextPages]_vars

\* ------------------------------------------------------- one run of withRetry
InitRetry ==
  /\ InitSync
  /\ upstream = [t \in Threads |-> 0]
  /\ pager = NoPager
  /\ retry \in {NewRetry(maxRetries) : maxRetries \in 1..MaxAttempts}
  /\ healthCheck = NoHealthCheck
  /\ batchRun = NoBatchRun

NextRetry ==
  \/ \E succeeds \in BOOLEAN, message \in ErrorMessages :
        RetryAttempt(succeeds, message)
          /\ UNCHANGED <<syncVars, pager, otherNamespaces, returned, healthCheck, batchRun>>
  \/ RetryWake /\ UNCHANGED <<syncVars, pager, otherNamespaces, returned, healthCheck, batchRun>>

SpecRetry == InitRetry /\ [][NextRetry]_vars

\* withRetry over an operation the Ed API also rejects for its token
AuthErrorMessages ==
  {TokenErrorText, "Failed to fetch from Ed API: Ed API error (403): forbidden"}

NextAuthRetry ==
  \/ \E succeeds \in BOOLEAN, message \in ErrorMessages \cup AuthErrorMessages :
        RetryAttempt(succeeds, message)
          /\ UNCHANGED <<syncVars, pager, otherNamespaces, returned, healthCheck, batchRun>>
  \/ RetryWake /\ UNCHANGED <<syncVars, pager, otherNamespaces, returned, healthCheck, batchRun>>

SpecAuthRetry == InitRetry /\ [][NextAuthRetry]_vars

\* ------------------------------------------- the methods of the vector client
\* a comment or an answer whose document field holds its text
Node(id, text, updatedAt, comments) ==
  [id |-> id, content |-> Some(text), document |-> text, updated_at |-> updatedAt,
   comments |-> comments]

SampleThreadIds == {1, 2, 10}

\* ThreadDetails handed to the client.  Thread 1: a body, an answer with a
\* short reply and a reply to that reply, a comment of 10 characters between
\* spaces and a comment whose HTML content has 10 characters.  Thread 10: a
\* body and an answer.  Thread 2: the body "ok" and one answer of 50
\* characters.
SampleThread(t) ==
  CASE t = 1 ->
         [id |-> 1, course_id |-> 1, updated_at |-> 1,
          content |-> Some(Text(11)), document |-> Text(11),
          answers |-> <<Node(5, Text(11), 1,
                             <<Node(6, Text(3), 1, <<Node(7, Text(11), 1, <<>>)>>)>>)>>,
          comments |-> <<Node(8, <<" ">> \o Text(10) \o <<" ">>, 1, <<>>),
                         [id |-> 9, document |-> <<>>, updated_at |-> 1,
                          content |-> Some(<<"<", "p", ">">> \o Text(10)
                                             \o <<"<", "/", "p", ">">>),
                          comments |-> <<>>]>>]
    [] t = 10 ->
         [id |-> 10, course_id |-> 1, updated_at |-> 2,
          content |-> Some(Text(11)), document |-> Text(11),
          answers |-> <<Node(5, Text(11), 2, <<>>)>>,
          comments |-> <<>>]
    [] OTHER ->
         [id |-> 2, course_id |-> 1, updated_at |-> 2,
          content |-> Some(<<"o", "k">>), document |-> <<"o", "k">>,
          answers |-> <<Node(7, Text(50), 2, <<>>)>>,
          comments |-> <<>>]

SampleBatches ==
  {<<SampleThread(1)>>, <<SampleThread(10)>>, <<SampleThread(2)>>,
   <<SampleThread(1), SampleThread(10), SampleThread(2)>>}

SampleIds == {<<"thread_1", "answer_10_5">>, <<"thread_99">>}

indexFrame == <<now, courseSyncStates, nextDocId, workflows, calls, upstream,
                lastFetchedAt, pager, retry, healthCheck, batchRun>>

InitIndex ==
  /\ InitSync
  /\ upstream = [t \in Threads |-> 0]
  /\ pager = NoPager
  /\ retry = NoRetry
  /\ healthCheck = NoHealthCheck
  /\ batchRun = NoBatchRun

NextIndex ==
  \/ \E threads \in SampleBatches, c \in IndexCourses, failing \in FailingChunkSets :
        UpsertThreadsBatchCall(threads, c, failing) /\ UNCHANGED indexFrame
  \/ \E threads \in SampleBatches, c \in IndexCourses, sinceDate \in 1..2 :
        DeltaSyncCourseCall(threads, c, sinceDate, {}) /\ UNCHANGED indexFrame
  \/ \E c \in IndexCourses, topK \in {1, DEFAULT_TOP_K} :
        SearchCourseCall(c, topK) /\ UNCHANGED indexFrame
  \/ \E ids \in SampleIds, c \in IndexCourses :
        GetVectorsByIdsCall(ids, c) /\ UNCHANGED indexFrame
  \/ \E t \in SampleThreadIds, c \in IndexCourses :
        DeleteThreadCall(t, c) /\ UNCHANGED indexFrame
  \/ \E c \in IndexCourses : DeleteCourseCall(c) /\ UNCHANGED indexFrame
  \/ \E c \in IndexCourses, rangeThrows \in BOOLEAN :
        GetCourseStatsCall(c, rangeThrows) /\ UNCHANGED indexFrame

SpecIndex == InitIndex /\ [][NextIndex]_vars

\* ------------------------------------------ calls of syncCourseVectors
\* the options syncCourseVectors is called with
ClientOptions ==
  {[forceFullSync |-> TRUE, sinceDate |-> NONE],
   [forceFullSync |-> FALSE, sinceDate |-> NONE]}
  \cup {[forceFullSync |-> FALSE, sinceDate |-> Some(d)] : d \in 1..2}

\* syncCourseVectors(courseId, options) on course 1, as one call: the list
\* fetched, the details fetched, the upsert
SyncCourseVectorsCall(options, honoursSince, failing, failingChunks) ==
  LET threads == syncListThreads(options, honoursSince)
      e == syncEnrich(options, threads, failing)
      r == syncUpsert(options, e.threadDetails, failingChunks)
      result == [upserted |-> r.upserted, deleted |-> r.deleted, errors |-> r.errors]
  IN /\ vectors' = UpsertAll(vectors, r.written)
     /\ returned' = [Call("syncCourseVectors", 1, result)
                       EXCEPT !.options = Some(options),
                              !.threads = e.failedThreads,
                              !.repeated = /\ returned.op = "syncCourseVectors"
                                           /\ returned.options = Some(options)
                                           /\ returned.value = Some(result)
                                           /\ returned.threads = e.failedThreads,
                              !.listed = [i \in 1..Len(threads) |-> threads[i].id],
                              !.written = [i \in 1..Len(r.written) |-> r.written[i].id]]
     /\ UNCHANGED <<now, courseSyncStates, nextDocId, workflows, calls, upstream,
                    lastFetchedAt, pager, otherNamespaces, retry, healthCheck, batchRun>>

\* thread 1 is from time 1, the threads after it from time 2
CreatedAt(t) == IF t = 1 THEN 1 ELSE 2

\* at most one thread of the list whose getThreadDetails fails every attempt
OneFailing(n) ==
  {[k \in 1..n |-> IF k = bad THEN MAX_RETRIES ELSE 0] : bad \in 0..n}

InitClient ==
  /\ InitSync
  /\ upstream \in {u \in [Threads -> 0..2] : \A t \in Threads : u[t] \in {0, CreatedAt(t)}}
  /\ pager = NoPager
  /\ retry = NoRetry
  /\ healthCheck = NoHealthCheck
  /\ batchRun = NoBatchRun

NextClient ==
  \/ TickTo(MaxTime)
  \/ \E options \in ClientOptions, honoursSince \in BOOLEAN :
        \E failing \in OneFailing(Len(syncListThreads(options, honoursSince))),
           failingChunks \in SUBSET {0} :
           SyncCourseVectorsCall(options, honoursSince, failing, failingChunks)

SpecClient == InitClient /\ [][NextClient]_vars

\* ------------------------------------- forceFullResync beside another sync
\* The Ed API side: thread t is deleted.
UpstreamDelete(t) ==
  /\ upstream[t] > 0
  /\ upstream' = [upstream EXCEPT ![t] = 0]
  /\ UNCHANGED <<now, courseSyncStates, nextDocId, workflows, calls, vectors,
                 lastFetchedAt, pager, otherNamespaces, returned, retry, healthCheck, batchRun>>

\* the documents an earlier full sync of the course has stored
SyncedVectors ==
  UpsertAll({}, upsertThreadsBatch([k \in 1..Len(UpstreamList) |->
                                      ThreadDetailsOf(UpstreamList[k].id,
                                                      UpstreamList[k].updated_at)],
                                   {}).written)

\* every thread of the course exists and is in the index
InitResync ==
  /\ now = 1
  /\ courseSyncStates = {}
  /\ nextDocId = 1
  /\ workflows = <<>>
  /\ calls = <<>>
  /\ upstream = [t \in Threads |-> 1]
  /\ vectors = SyncedVectors
  /\ otherNamespaces = [name \in OtherNamespaceNames |-> {}]
  /\ returned = NoCall
  /\ lastFetchedAt = [c \in Courses |-> NONE]
  /\ pager = NoPager
  /\ retry = NoRetry
  /\ healthCheck = NoHealthCheck
  /\ batchRun = NoBatchRun

ResyncStep(k) ==
  \/ \E throws \in BOOLEAN : ForceDelete(k, throws)
  \/ ForceReset(k)
  \/ ForceStart(k)
  \/ ForceMark(k)

NextResync ==
  \/ \E t \in Threads : UpstreamDelete(t)
  \/ \E c \in Courses : startCourseSync(c, "full", FALSE, "ok")
  \/ \E c \in Courses : forceFullResync(c, "ok")
  \/ \E k \in 1..Len(calls) : ResyncStep(k)
  \/ \E w \in WorkflowIds : PerformStep(w)

SpecResync == InitResync /\ [][NextResync]_vars

\* forceFullResync with every step able to throw
NextForce ==
  \/ NextResync
  \/ \E k \in 1..Len(calls) : ForceCatch(k)

SpecForce == InitResync /\ [][NextForce]_vars

\* syncCourseVectors called, full and delta, on an indexed course whose
\* threads are edited and deleted upstream between the calls; deleteCourse
\* called in between
NextStale ==
  \/ TickTo(MaxTime)
  \/ \E t \in Threads : UpstreamDelete(t)
  \/ \E t \in Threads : upstream[t] > 0 /\ UpstreamUpdate(t)
  \/ \E options \in ClientOptions, honoursSince \in BOOLEAN :
        \E failing \in OneFailing(Len(syncListThreads(options, honoursSince))),
           failingChunks \in SUBSET {0} :
           SyncCourseVectorsCall(options, honoursSince, failing, failingChunks)
  \/ DeleteCourseCall(1) /\ UNCHANGED indexFrame

SpecStale == InitResync /\ [][NextStale]_vars

\* ------------------------------------------------- getCourseStats, page by page
\* "const limit = 1000; // Upstash limit"
RANGE_LIMIT == 1000

\* namespaces of up to MaxVectors vectors, around and between the page
\* boundaries
MaxVectors == 3001
StatsSizes ==
  UNION {{k * RANGE_LIMIT - 2, k * RANGE_LIMIT - 1, k * RANGE_LIMIT,
          k * RANGE_LIMIT + 1, k * RANGE_LIMIT + 2, k * RANGE_LIMIT + 500}
            \cap (0..MaxVectors) : k \in 0..3}
    \cup {MaxVectors}

\* the i-th vector index.range enumerates: documents of thread i
StatsId(i) ==
  IF i % 3 = 1 THEN "thread_" \o ToString(i)
  ELSE IF i % 3 = 2 THEN "answer_" \o ToString(i) \o "_1"
  ELSE "comment_" \o ToString(i) \o "_1"

InitStats ==
  /\ now = 1
  /\ courseSyncStates = {}
  /\ nextDocId = 1
  /\ workflows = <<>>
  /\ calls = <<>>
  /\ upstream = [t \in Threads |-> 0]
  /\ \E n \in StatsSizes :
        vectors = {[id |-> StatsId(i), updated_at |-> 1] : i \in 1..n}
  /\ otherNamespaces = [name \in OtherNamespaceNames |-> {}]
  /\ returned = NoCall
  /\ lastFetchedAt = [c \in Courses |-> NONE]
  /\ pager = NoPager
  /\ retry = NoRetry
  /\ healthCheck = NoHealthCheck
  /\ batchRun = NoBatchRun

\* index.range({cursor, limit}, {namespace}): the next `limit` vectors and a
\* cursor, which is empty once the namespace is exhausted
rangePage(ns, cursor) ==
  LET n == Cardinality(ns)
      last == IF cursor + RANGE_LIMIT < n THEN cursor + RANGE_LIMIT ELSE n
  IN [vectors |-> [j \in 1..(last - cursor) |-> [id |-> StatsId(cursor + j)]],
      nextCursor |-> IF last < n THEN Some(last) ELSE NONE]

\* the loop over batch.vectors
countBatch(stats, batch) ==
  LET with(prefix) == Cardinality({j \in 1..Len(batch) : startsWith(batch[j].id, prefix)})
  IN [totalVectors |-> stats.totalVectors + Len(batch),
      threadVectors |-> stats.threadVectors + with("thread_"),
      answerVectors |-> stats.answerVectors + with("answer_"),
      commentVectors |-> stats.commentVectors + with("comment_")]

\* the scan that ends with its first page
hasMore_Never(batch) == FALSE

\* batch.vectors.length === limit && !!batch.nextCursor
hasMore(batch) == Len(batch.vectors) = RANGE_LIMIT /\ batch.nextCursor # NONE

\* getCourseStats up to its loop
StatsStart(courseId) ==
  /\ returned = NoCall
  /\ returned' = [NoCall EXCEPT
                    !.op = "getCourseStats", !.courseId = courseId,
                    !.options = Some([cursor |-> 0, pages |-> 0, failed |-> FALSE,
                                      stats |-> RangeFailedStats])]
  /\ UNCHANGED <<vectors, otherNamespaces>>

\* one pass of the loop: index.range throws and the catch returns zeroes, or
\* the batch is counted and the loop goes on or the stats are returned
StatsPage(rangeThrows) ==
  /\ returned.op = "getCourseStats" /\ returned.value = NONE /\ returned.options # NONE
  /\ LET scan == Val(returned.options)
         batch == rangePage(Stored(namespaceOf(returned.courseId)), scan.cursor)
         stats == countBatch(scan.stats, batch.vectors)
     IN returned' =
          IF rangeThrows
          THEN [returned EXCEPT
                  !.options = Some([scan EXCEPT !.pages = @ + 1, !.failed = TRUE]),
                  !.value = Some(RangeFailedStats)]
          ELSE [returned EXCEPT
                  !.options = Some([scan EXCEPT !.pages = @ + 1, !.stats = stats,
                                                !.cursor = OrElse(batch.nextCursor, <<0>>)[1]]),
                  !.value = IF hasMore(batch) THEN NONE ELSE Some(stats)]
  /\ UNCHANGED <<vectors, otherNamespaces>>

NextStats ==
  \/ StatsStart(1) /\ UNCHANGED indexFrame
  \/ \E rangeThrows \in BOOLEAN : StatsPage(rangeThrows) /\ UNCHANGED indexFrame

SpecStats == InitStats /\ [][NextStats]_vars

\* ------------------------------------------- the maintenance mutations, called
\* resetStuckSyncs with what it returns
ResetStuckSyncsCall(maxHours) ==
  /\ courseSyncStates' =
       (courseSyncStates \ StuckSyncs(maxHours))
          \cup {ResetDoc(d) : d \in StuckSyncs(maxHours)}
  /\ returned' = [Call("resetStuckSyncs", 0,
                       [resetCount |-> Cardinality(StuckSyncs(maxHours))])
                    EXCEPT !.options = Some(maxHours)]
  /\ UNCHANGED <<now, nextDocId, workflows, calls, upstream, vectors, lastFetchedAt,
                 pager, otherNamespaces, retry, healthCheck, batchRun>>

\* the records cleanupCompletedSyncs collects
CompletedSyncs(olderThanDays) ==
  LET cutoffTime == now - OrElse(olderThanDays, Some(DEFAULT_CLEANUP_DAYS))[1]
                            * MILLISECONDS_PER_DAY
  IN {d \in courseSyncStates :
        /\ d.status = "completed" \/ d.status = "failed"
        /\ FieldLt(d.lastSyncAt, cutoffTime)}

\* cleanupCompletedSyncs with what it returns
CleanupCompletedSyncsCall(olderThanDays) ==
  /\ courseSyncStates' = courseSyncStates \ CompletedSyncs(olderThanDays)
  /\ returned' = [Call("cleanupCompletedSyncs", 0,
                       [deletedCount |-> Cardinality(CompletedSyncs(olderThanDays))])
                    EXCEPT !.options = Some(olderThanDays)]
  /\ UNCHANGED <<now, nextDocId, workflows, calls, upstream, vectors, lastFetchedAt,
                 pager, otherNamespaces, retry, healthCheck, batchRun>>

SweepNow == 10 * MILLISECONDS_PER_DAY

\* when a record's last sync started: 8 days, 7 days, 3 hours, 2 hours or
\* 1 hour before SweepNow
SweepTimes ==
  {SweepNow - 8 * MILLISECONDS_PER_DAY, SweepNow - 7 * MILLISECONDS_PER_DAY,
   SweepNow - 3 * MILLISECONDS_PER_HOUR, SweepNow - 2 * MILLISECONDS_PER_HOUR,
   SweepNow - MILLISECONDS_PER_HOUR}

\* the record of a course as the orchestrator leaves it: a `syncing` record
\* has its lastSyncAt and no errorMessage, a `failed` record its errorMessage
SweepRecords(c) ==
  {d \in {[_id |-> c, courseId |-> c, status |-> st, syncType |-> "full",
           lastSyncAt |-> at, lastSuccessfulSyncAt |-> NONE,
           totalThreads |-> NONE, syncedThreads |-> NONE,
           errorMessage |-> IF st = "failed" THEN Some(ListErrorText) ELSE NONE,
           workflowId |-> IF st = "idle" THEN NONE ELSE Some(c)] :
            st \in {"idle", "syncing", "completed", "failed"},
            at \in {Some(t) : t \in SweepTimes} \cup {NONE}} :
     d.status = "syncing" => d.lastSyncAt # NONE}

\* no record or one record of the course
SweepTable(c) == {{}} \cup {{d} : d \in SweepRecords(c)}

InitSweep ==
  /\ now = SweepNow
  /\ courseSyncStates \in {a \cup b : a \in SweepTable(1), b \in SweepTable(2)}
  /\ nextDocId = 3
  /\ workflows = <<>>
  /\ calls = <<>>
  /\ upstream = [t \in Threads |-> 0]
  /\ vectors = {}
  /\ otherNamespaces = [name \in OtherNamespaceNames |-> {}]
  /\ returned = NoCall
  /\ lastFetchedAt = [c \in Courses |-> NONE]
  /\ pager = NoPager
  /\ retry = NoRetry
  /\ healthCheck = NoHealthCheck
  /\ batchRun = NoBatchRun

NextSweep ==
  \/ \E maxHours \in {NONE, Some(0), Some(1)} : ResetStuckSyncsCall(maxHours)
  \/ \E olderThanDays \in {NONE, Some(0), Some(1)} :
        CleanupCompletedSyncsCall(olderThanDays)

SpecSweep == InitSweep /\ [][NextSweep]_vars

\* ------------------------------------ every writer of the table, interleaved
\* The mutation cleanupCompletedSyncs: one transaction. The model deletes at
\* most MaxDeletes documents.
cleanupCompletedSyncs(olderThanDays) ==
  /\ CompletedSyncs(olderThanDays) # {}
  /\ Deleted + Cardinality(CompletedSyncs(olderThanDays)) <= MaxDeletes
  /\ courseSyncStates' = courseSyncStates \ CompletedSyncs(olderThanDays)
  /\ UNCHANGED <<now, nextDocId, workflows, calls, upstream, vectors, lastFetchedAt, pager, otherNamespaces, returned, retry, healthCheck, batchRun>>

\* the course has no threads
InitTable ==
  /\ InitSync
  /\ upstream = [t \in Threads |-> 0]
  /\ pager = NoPager
  /\ retry = NoRetry
  /\ healthCheck = NoHealthCheck
  /\ batchRun = NoBatchRun

NextTable ==
  \/ Next
  \/ \E olderThanDays \in {NONE, Some(0)} : cleanupCompletedSyncs(olderThanDays)

SpecTable == InitTable /\ [][NextTable]_vars

\* ---------------------------------------------------- health checks, one by one
InitHealthCheck ==
  /\ InitSync
  /\ upstream = [t \in Threads |-> 0]
  /\ pager = NoPager
  /\ retry = NoRetry
  /\ healthCheck = NoHealthCheck
  /\ batchRun = NoBatchRun

NextHealthCheck ==
  \/ \E edToken \in HealthTokens : GetHealthStatus(edToken)
  \/ \E configThrows \in BOOLEAN : PerformHealthCheck(configThrows)
  \/ \E succeeds \in BOOLEAN : IdentityAnswer(succeeds)
  \/ HealthCheckTimeout
  \/ HealthTick

\* The action runs once it is called, time passes, and a timer that is due
\* fires; whether the Ed API ever answers is left open.
SpecHealthCheck ==
  /\ InitHealthCheck /\ [][NextHealthCheck]_vars
  /\ WF_vars(\E configThrows \in BOOLEAN : PerformHealthCheck(configThrows))
  /\ WF_vars(HealthCheckTimeout)
  /\ WF_vars(HealthTick)

\* ------------------------------------------ one large call of upsertThreadsBatch
\* thread t of a large batch: a body of 11 characters and CommentsPerThread
\* comments of 11 characters, which makes CommentsPerThread + 1 documents, or,
\* when broken, a thread with neither content nor document
CommentsPerThread == 33

BatchThread(t, broken) ==
  [id |-> t, course_id |-> 1, updated_at |-> 1,
   content |-> IF broken THEN NONE ELSE Some(Text(11)),
   document |-> IF broken THEN <<>> ELSE Text(11),
   answers |-> <<>>,
   comments |-> [c \in 1..CommentsPerThread |-> Node(c, Text(11), 1, <<>>)]]

LargeBatch(n, broken) == [t \in 1..n |-> BatchThread(t, t \in broken)]

\* up to MaxBatch threads
MaxBatch == 7
BatchSizes == 1..MaxBatch
BrokenSets(n) == {{}, {1}, {2}, {n}, {1, n}}

\* upsertThreadsBatch called once on an empty namespace
LargeUpsertCall(n, broken, failing) ==
  /\ returned = NoCall
  /\ LET r == upsertThreadsBatch(LargeBatch(n, broken), failing)
     IN /\ Store(namespaceOf(1), UpsertAll(Stored(namespaceOf(1)), r.written))
        /\ returned' = [Call("upsertThreadsBatch", 1,
                             [upserted |-> r.upserted, deleted |-> r.deleted,
                              errors |-> r.errors])
                          EXCEPT !.threads = [t \in 1..n |-> t],
                                 !.options = Some([broken |-> broken,
                                                   failing |-> failing])]
  /\ UNCHANGED indexFrame

NextBatch ==
  \E n \in BatchSizes, failing \in SUBSET (0..2) :
     \E broken \in BrokenSets(n) : LargeUpsertCall(n, broken, failing)

SpecBatch == InitIndex /\ [][NextBatch]_vars

\* the vectors handed to index.upsert by the second loop, call by call
upsertCalls(docs) == [k \in 1..NumChunks(Len(docs)) |-> Chunk(docs, k - 1)]

IdsOfDocuments(docs) == [j \in 1..Len(docs) |-> docs[j].id]

\* upsertThreadsBatch called once on an empty namespace, the ids handed to
\* every index.upsert call kept with what it returns
ChunkedUpsertCall(n, broken, failing) ==
  /\ returned = NoCall
  /\ LET threads == LargeBatch(n, broken)
         r == upsertThreadsBatch(threads, failing)
         sent == upsertCalls(IdsOfDocuments(collectDocuments(threads).docs))
     IN /\ Store(namespaceOf(1), UpsertAll(Stored(namespaceOf(1)), r.written))
        /\ returned' = [Call("upsertThreadsBatch", 1,
                             [upserted |-> r.upserted, deleted |-> r.deleted,
                              errors |-> r.errors])
                          EXCEPT !.threads = [t \in 1..n |-> t],
                                 !.options = Some([broken |-> broken,
                                                   failing |-> failing]),
                                 !.ids = sent]
  /\ UNCHANGED indexFrame

NextChunks ==
  \E n \in BatchSizes, failing \in SUBSET (0..2) :
     \E broken \in BrokenSets(n) : ChunkedUpsertCall(n, broken, failing)

SpecChunks == InitIndex /\ [][NextChunks]_vars

\* ---------------------------------------------- extraction of nested replies
\* ThreadDetails with two answers and one comment: answer 1 has the reply 2,
\* which has the reply 3; answer 4 has none; comment 5 has the reply 6, which
\* has the reply 7.  The text of a node in `long` has 11 characters, of the
\* others 3.
NestedNodes == 1..7

NestedText(n, long) == IF n \in long THEN Text(11) ELSE Text(3)

NestedThread(long) ==
  [id |-> 1, course_id |-> 1, updated_at |-> 1,
   content |-> Some(Text(11)), document |-> Text(11),
   answers |-> <<Node(1, NestedText(1, long), 1,
                      <<Node(2, NestedText(2, long), 1,
                             <<Node(3, NestedText(3, long), 1, <<>>)>>)>>),
                 Node(4, NestedText(4, long), 1, <<>>)>>,
   comments |-> <<Node(5, NestedText(5, long), 1,
                       <<Node(6, NestedText(6, long), 1,
                              <<Node(7, NestedText(7, long), 1, <<>>)>>)>>)>>]

\* upsertThreadsBatch called once with such a thread, id and metadata.type of
\* the vectors upserted kept with what it returns
NestedUpsertCall(long) ==
  /\ returned = NoCall
  /\ LET r == upsertThreadsBatch(<<NestedThread(long)>>, {})
     IN /\ Store(namespaceOf(1), UpsertAll(Stored(namespaceOf(1)), r.written))
        /\ returned' = [Call("upsertThreadsBatch", 1,
                             [upserted |-> r.upserted, deleted |-> r.deleted,
                              errors |-> r.errors])
                          EXCEPT !.threads = <<1>>,
                                 !.options = Some(long),
                                 !.written = [i \in 1..Len(r.written) |->
                                                [id |-> r.written[i].id,
                                                 type |-> r.written[i].type]]]
  /\ UNCHANGED indexFrame

NextNested == \E long \in SUBSET NestedNodes : NestedUpsertCall(long)

SpecNested == InitIndex /\ [][NextNested]_vars

\* --------------------------------------------------- updateSyncState, called
\* the arguments the validator of updateSyncState admits for course 1, each
\* optional one left out or supplied
SampleArgs ==
  {[Args(1, status, "full") EXCEPT
      !.lastSyncAt = lastSyncAt, !.lastSuccessfulSyncAt = lastSuccessfulSyncAt,
      !.totalThreads = totalThreads, !.syncedThreads = syncedThreads,
      !.errorMessage = errorMessage, !.workflowId = workflowId] :
     status \in {"idle", "syncing", "completed", "failed"},
     lastSyncAt \in {NONE, Some(1)}, lastSuccessfulSyncAt \in {NONE, Some(1)},
     totalThreads \in {NONE, Some(2)}, syncedThreads \in {NONE, Some(2)},
     errorMessage \in {NONE, Some("boom")}, workflowId \in {NONE, Some(1)}}

\* updateSyncState called on the empty table and once more on the record the
\* first call inserted
UpdateSyncStateCall(args) ==
  /\ ~returned.repeated
  /\ updateSyncState(args)
  /\ returned' = [Call("updateSyncState", args.courseId, args)
                    EXCEPT !.repeated = returned.op = "updateSyncState"]
  /\ UNCHANGED <<now, workflows, calls, upstream, vectors, lastFetchedAt, pager, otherNamespaces, retry, healthCheck, batchRun>>

NextPatch == \E args \in SampleArgs : UpdateSyncStateCall(args)

SpecPatch == InitIndex /\ [][NextPatch]_vars

\* ------------------------------- getAllCourseThreads(courseId, sinceDate)
\* the sizes of the course and the threads last edited before sinceDate:
\* none, the newest, the oldest, the newest and the oldest, the newer half
SinceSizes == {1, PAGE_LIMIT - 1, PAGE_LIMIT, PAGE_LIMIT + 1, 2 * PAGE_LIMIT + 1}
OldSets(n) == {{}, {n}, {1}, {1, n}, {t \in 1..n : 2 * t > n}}

InitSince ==
  /\ InitSync
  /\ retry = NoRetry
  /\ healthCheck = NoHealthCheck
  /\ batchRun = NoBatchRun
  /\ upstream = [t \in Threads |-> 0]
  /\ \E n \in SinceSizes, server \in {"honest", "lax"} :
        \E old \in OldSets(n) :
           pager = [NewPager("offset", server, n, Some(1)) EXCEPT !.old = old]

SpecSince == InitSince /\ [][NextPages]_vars

\* ------------------------------- performCourseSync crashed and run again
\* The action stops at any point after its start and the workflow runs it
\* again from its beginning with the same arguments.
Crash(w) ==
  /\ Running(w)
  /\ workflows[w].pc # "scheduled"
  /\ workflows' = [workflows EXCEPT ![w] =
                     NewWorkflow(@.courseId, @.syncType, @.forceFullSync, @.edToken)]
  /\ UNCHANGED <<now, courseSyncStates, nextDocId, calls, upstream, vectors, lastFetchedAt, pager, otherNamespaces, returned, retry, healthCheck, batchRun>>

\* The action stops between its last write, `completed` or `failed`, and its
\* return, and is run again.
CrashAfterLastWrite(w) ==
  /\ workflows[w].pc \in {"markCompleted", "markFailed"}
  /\ updateSyncState(IF workflows[w].pc = "markCompleted"
                     THEN CompletedArgs(workflows[w]) ELSE FailedArgs(workflows[w]))
  /\ lastFetchedAt' = IF workflows[w].pc = "markCompleted"
                      THEN [lastFetchedAt EXCEPT ![workflows[w].courseId] =
                                                   Some(workflows[w].fetchedAt)]
                      ELSE lastFetchedAt
  /\ workflows' = [workflows EXCEPT ![w] =
                     NewWorkflow(@.courseId, @.syncType, @.forceFullSync, @.edToken)]
  /\ UNCHANGED <<now, calls, upstream, vectors, pager, otherNamespaces, returned, retry, healthCheck, batchRun>>

\* a step of the action against an upstream that answers every request
ReplayStep(w) ==
  \/ PerformValidate(w)
  \/ PerformMarkSyncing(w)
  \/ PerformReadState(w)
  \/ PerformFetch(w, FALSE, TRUE)
  \/ \E failing \in NoFailingAttempts(Len(workflows[w].threads)) :
        PerformEnrich(w, failing, {})
  \/ PerformMarkCompleted(w)
  \/ PerformMarkFailed(w)

\* one sync of a course never synced before, its content unchanged
NextReplay ==
  \/ TickTo(MaxTime)
  \/ \E c \in Courses, m \in SyncModes, tok \in Tokens :
        workflows = <<>> /\ startCourseSync(c, m[1], m[2], tok)
  \/ \E w \in WorkflowIds : ReplayStep(w)
  \/ \E w \in WorkflowIds : Crash(w)
  \/ \E w \in WorkflowIds : CrashAfterLastWrite(w)

SpecReplay == InitSeq /\ [][NextReplay]_vars

\* ---------------------------------------------- one enrichment, slice by slice
\* lists of no thread, one thread, one slice, one slice and a thread, two
\* slices and a thread
EnrichmentSizes(c) == {0, 1, c, c + 1, 2 * c + 1}

InitEnrichment ==
  /\ InitSync
  /\ upstream = [t \in Threads |-> 0]
  /\ pager = NoPager
  /\ retry = NoRetry
  /\ healthCheck = NoHealthCheck
  /\ batchRun = NoBatchRun

NextEnrichment ==
  \/ \E length \in EnrichmentSizes(FULL_CONCURRENCY) :
        \E flaky \in {-1, 0, length - 1} : StartEnrichment("full", length, flaky)
  \/ \E length \in EnrichmentSizes(DELTA_CONCURRENCY) :
        \E flaky \in {-1, 0, length - 1} : StartEnrichment("delta", length, flaky)
  \/ StartSlice
  \/ FetchReturns
  \/ \E succeeds \in BOOLEAN : FlakyAttempt(succeeds, ListErrorText)
  \/ FlakyWake
  \/ CollectSlice

SpecEnrichment == InitEnrichment /\ [][NextEnrichment]_vars

\* ===================================================================== claims
WorkflowsOf(c) == {w \in WorkflowIds : workflows[w].courseId = c}
StatesOf(c) == {d \in courseSyncStates : d.courseId = c}
Count(seq, x) == Cardinality({i \in 1..Len(seq) : seq[i] = x})
ListedIds(wf) == [i \in 1..Len(wf.threads) |-> wf.threads[i].id]

\* C1: once every workflow step started for a course has returned or thrown
\* and every triggering call has returned, the course's SyncState is not
\* left in `syncing`.
C1_TriggeredSyncLeavesSyncing ==
  \A c \in Courses :
     ( /\ WorkflowsOf(c) # {}
       /\ \A w \in WorkflowsOf(c) : ~Running(w)
       /\ \A k \in 1..Len(calls) : calls[k].pc = "returned" )
     => \A d \in StatesOf(c) : d.status # "syncing"

\* C2: under any interleaving of startCourseSync, syncAllActiveCourses,
\* forceFullResync and resetStuckSyncs (no SyncState deleted), at most one
\* workflow per course is started and unfinished at any time.
C2_OneWorkflowPerCourse ==
  Deleted = 0
  => \A c \in Courses : Cardinality({w \in WorkflowsOf(c) : Running(w)}) <= 1

\* C3: a step changes a SyncState's lastSuccessfulSyncAt only by a write that
\* sets status `completed`, and never to a smaller value.
C3_LastSuccessfulSyncAtOnlyAdvances ==
  [][\A d \in courseSyncStates : \A e \in courseSyncStates' :
        (e._id = d._id /\ e.lastSuccessfulSyncAt # d.lastSuccessfulSyncAt)
        => /\ e.status = "completed"
           /\ IsSome(e.lastSuccessfulSyncAt)
           /\ IsSome(d.lastSuccessfulSyncAt)
                => Val(e.lastSuccessfulSyncAt) >= Val(d.lastSuccessfulSyncAt)]_vars

\* C6: the write that completes a sync with a non-empty error list leaves the
\* record `completed` with syncedThreads = upserted and errorMessage = the
\* errors joined with "; ".
C6_CompletedKeepsErrorMessage ==
  [][\A w \in WorkflowIds :
        ( /\ workflows[w].pc = "markCompleted"
          /\ workflows'[w].pc = "returned"
          /\ Len(workflows[w].result.errors) > 0 )
        => \A d \in courseSyncStates' :
              d.courseId = workflows[w].courseId
              => /\ d.status = "completed"
                 /\ d.syncedThreads = Some(workflows[w].result.upserted)
                 /\ d.errorMessage = Some(Join(workflows[w].result.errors, "; "))]_vars

\* the step of workflow w from pc `from` to pc `to`
Moves(w, from, to) ==
  /\ w \in WorkflowIds
  /\ workflows[w].pc = from
  /\ workflows'[w].pc = to

IsDelta(wf) == wf.syncType = "delta" /\ ~wf.forceFullSync

\* C4: the thread list a delta sync fetches holds every thread updated later
\* than the moment the previous completed sync fetched its thread list.
C4_NoUpdateLostBetweenSyncs ==
  [][\A w \in WorkflowIds :
        ( /\ Moves(w, "fetch", "enrich")
          /\ IsDelta(workflows[w])
          /\ IsSome(workflows[w].currentState)
          /\ IsSome(lastFetchedAt[workflows[w].courseId]) )
        => \A t \in Threads :
              upstream[t] > Val(lastFetchedAt[workflows[w].courseId])
              => Count(ListedIds(workflows'[w]), t) > 0]_vars

\* C5 (as claimed): a delta sync is always a delta fetch, restricted by the
\* stored lastSuccessfulSyncAt when there is one and by now minus 7 days when
\* there is none.
C5_DeltaAlwaysDeltaFetch ==
  [][\A w \in WorkflowIds :
        (Moves(w, "fetch", "enrich") /\ IsDelta(workflows[w]))
        => /\ ~workflows'[w].options.forceFullSync
           /\ LET sinceDate ==
                    IF IsSome(workflows[w].currentState)
                    THEN Val(workflows[w].currentState)
                    ELSE now - DEFAULT_LOOKBACK_DAYS * MILLISECONDS_PER_DAY
              IN ListedIds(workflows'[w]) =
                   ListedIds([threads |-> SelectSeq(UpstreamList,
                                  LAMBDA th : th.updated_at >= sinceDate)])]_vars

\* C5 (amended): a delta sync fetches the threads updated since the stored
\* lastSuccessfulSyncAt when there is one, and the whole course when there is
\* none.
C5_DeltaFetchOrFullFallback ==
  [][\A w \in WorkflowIds :
        (Moves(w, "fetch", "enrich") /\ IsDelta(workflows[w]))
        => LET stored == Val(getCourseSyncState(workflows[w].courseId)).lastSuccessfulSyncAt
           IN /\ workflows[w].currentState = stored
              /\ IsSome(stored)
                   => /\ ~workflows'[w].options.forceFullSync
                      /\ workflows'[w].options.sinceDate = stored
                      /\ workflows'[w].threads =
                           SelectSeq(UpstreamList, LAMBDA th : th.updated_at >= Val(stored))
              /\ ~IsSome(stored)
                   => /\ workflows'[w].options.forceFullSync
                      /\ workflows'[w].threads = UpstreamList]_vars

\* C5 witness: a delta sync has fetched with a sinceDate that left a thread of
\* the course out.
C5_Witness ==
  \E w \in WorkflowIds :
     /\ workflows[w].pc = "enrich"
     /\ IsDelta(workflows[w])
     /\ IsSome(workflows[w].options.sinceDate)
     /\ \E t \in Threads : upstream[t] > 0 /\ Count(ListedIds(workflows[w]), t) = 0

RECURSIVE DocIdsOf(_)
\* the ids of the documents of the threads whose details were fetched
DocIdsOf(ids) ==
  IF ids = <<>> THEN {}
  ELSE LET docs == createThreadVectorDocuments(ThreadDetailsOf(Head(ids), 1))
       IN {docs[i].id : i \in 1..Len(docs)} \cup DocIdsOf(Tail(ids))

\* C7: after enrichment every listed thread is in exactly one of the fetched
\* details and the failed threads, the fetched details are all upserted, and
\* the sync goes on to its `completed` write.
C7_FailedDetailNotFatal ==
  \A w \in WorkflowIds :
     LET wf == workflows[w]
     IN /\ (wf.detailIds # <<>> \/ wf.failedThreads # <<>>) => wf.pc = "markCompleted"
        /\ wf.pc = "markCompleted"
             => /\ \A t \in Threads :
                      Count(ListedIds(wf), t) = Count(wf.detailIds, t) + Count(wf.failedThreads, t)
                /\ wf.result.errors = <<>>
                     => /\ wf.result.upserted = Cardinality(DocIdsOf(wf.detailIds))
                        /\ DocIdsOf(wf.detailIds) \subseteq {v.id : v \in vectors}

\* C7 witness: a sync is about to write `completed` with one thread fetched
\* and another failed.
C7_Witness ==
  \E w \in WorkflowIds :
     /\ workflows[w].pc = "markCompleted"
     /\ workflows[w].detailIds # <<>>
     /\ workflows[w].failedThreads # <<>>

\* an entry of errors that names thread t
ReportsThread(e, t) ==
  \E msg \in {TypeErrorText, TokenErrorText, ListErrorText, UpsertErrorText} :
     e = ThreadError(t, msg)

\* C11: a delta sync called with sinceDate D lists, fetches and upserts only
\* threads whose updated_at is at or after D: the threads updated before D
\* are dropped by the client after the list is received and again before the
\* upsert, whatever the server answers to `since`.
C11_DeltaKeepsOnlyUpdatedSince ==
  (/\ returned.op = "syncCourseVectors"
   /\ ~Val(returned.options).forceFullSync
   /\ IsSome(Val(returned.options).sinceDate))
    => LET D == Val(Val(returned.options).sinceDate)
       IN /\ \A i \in 1..Len(returned.listed) : upstream[returned.listed[i]] >= D
          /\ \A i \in 1..Len(returned.threads) : upstream[returned.threads[i]] >= D
          /\ \A i \in 1..Len(returned.written) :
                \E t \in Threads : upstream[t] >= D /\ returned.written[i] \in DocIdsOf(<<t>>)

\* a delta sync since time 2 of a course with thread 1 updated at 1 and
\* thread 2 updated at 2: thread 2 upserted, thread 1 not
C11_Witness ==
  /\ returned.op = "syncCourseVectors"
  /\ Val(returned.options) = [forceFullSync |-> FALSE, sinceDate |-> Some(2)]
  /\ upstream[1] = 1 /\ upstream[2] = 2
  /\ returned.listed = <<2>>
  /\ returned.written # <<>>
  /\ vectors # {} /\ \A v \in vectors : v.id \in DocIdsOf(<<2>>)

\* C8: every thread whose detail fetch failed after all retries appears in
\* the errors of the sync result.
C8_FailedThreadsReported ==
  \A w \in WorkflowIds :
     workflows[w].pc = "markCompleted"
     => \A i \in 1..Len(workflows[w].failedThreads) :
           \E j \in 1..Len(workflows[w].result.errors) :
              ReportsThread(workflows[w].result.errors[j], workflows[w].failedThreads[i])

\* C9: getAllCourseThreads stops at the first page shorter than the limit and
\* at the latest when it has accumulated more threads than the safety cap,
\* even against a server that always returns full pages.
C9_PaginationTerminates ==
  (~IsSome(pager.inflight) /\ pager.requests # <<>>)
  => ( ( \/ pager.requests[Len(pager.requests)].received < PAGE_LIMIT
         \/ pager.totalFetched > SAFETY_CAP )
       => pager.done )

RECURSIVE ReceivedBefore(_)
\* the number of threads received before request k was sent
ReceivedBefore(k) ==
  IF k <= 1 THEN 0 ELSE ReceivedBefore(k - 1) + pager.requests[k - 1].received

IdsOf(threads) == [i \in 1..Len(threads) |-> threads[i].id]

\* C10: against a server that honours offset and limit and an unchanging list
\* of N threads, every request asks for the offset equal to the number of
\* threads received so far, a further request follows full pages only, and
\* the run returns exactly the N threads, each once (N = 250: 100, 100, 50).
C10_OffsetPagination ==
  (pager.variant = "offset" /\ pager.server = "honest" /\ pager # NoPager)
  => /\ \A k \in 1..Len(pager.requests) :
           /\ pager.requests[k].offset = Some(ReceivedBefore(k))
           /\ pager.requests[k].limit = PAGE_LIMIT
           /\ k < Len(pager.requests) => pager.requests[k].received = PAGE_LIMIT
     /\ IsSome(pager.inflight)
          => /\ Val(pager.inflight).offset = Some(Len(pager.allThreads))
             /\ \A k \in 1..Len(pager.requests) : pager.requests[k].received = PAGE_LIMIT
     /\ pager.done
          => /\ IdsOf(pager.allThreads) = IdsOf(PagerList(pager.total))
             /\ \A i, j \in 1..Len(pager.allThreads) :
                   pager.allThreads[i].id = pager.allThreads[j].id => i = j
             /\ pager.allThreads = getAllCourseThreads(PagerList(pager.total),
                                                       pager.sinceDate, TRUE)
             /\ Len(pager.requests) = (pager.total \div PAGE_LIMIT) + 1
             /\ pager.requests[Len(pager.requests)].received < PAGE_LIMIT
             /\ pager.total = 250
                  => [k \in 1..Len(pager.requests) |-> pager.requests[k].received]
                       = <<100, 100, 50>>

\* C10 witness: the run over 250 threads has returned after pages of 100, 100
\* and 50.
C10_Witness ==
  /\ pager.variant = "offset"
  /\ pager.server = "honest"
  /\ pager.total = 250
  /\ pager.done
  /\ Len(pager.requests) = 3
  /\ Len(pager.allThreads) = 250

\* ---- withRetry
Invocations == Len(retry.log)
FailedAttempts == {i \in 1..Len(retry.log) : ~retry.log[i].ok}

RECURSIVE TotalWait(_)
TotalWait(log) ==
  IF log = <<>> THEN 0 ELSE OrElse(Head(log).wait, <<0>>)[1] + TotalWait(Tail(log))

\* C18: withRetry invokes the operation at most maxAttempts times, one
\* invocation per attempt; it returns the value of the first invocation that
\* succeeds and invokes nothing after it; when every invocation fails it
\* throws the error of the last one, after exactly maxAttempts invocations.
C18_AtMostMaxAttemptsFirstSuccessLastError ==
  /\ Invocations <= retry.maxRetries
  /\ \A i \in 1..Invocations : retry.log[i].attempt = i
  /\ \A i \in 1..Invocations : retry.log[i].ok => i = Invocations
  /\ retry.pc = "returned"
       <=> (Invocations > 0 /\ retry.log[Invocations].ok)
  /\ retry.pc = "returned" => retry.value = Some([invocation |-> Invocations])
  /\ retry.pc = "thrown"
       <=> (Invocations = retry.maxRetries /\ FailedAttempts = 1..retry.maxRetries)
  /\ retry.pc = "thrown"
       => retry.thrown = Some([message |-> retry.log[retry.maxRetries].message,
                               invocation |-> retry.maxRetries])

\* the default number of attempts used up, the last two errors different
C18_Witness ==
  /\ retry.pc = "thrown"
  /\ retry.maxRetries = DEFAULT_MAX_RETRIES
  /\ Invocations = 5
  /\ retry.log[4].message # retry.log[5].message

\* C19: after the failed attempt k < maxAttempts with an error that is not a
\* rate limit, withRetry waits exactly 100 * 2^(k-1) ms, except that it waits
\* 0 ms after a timeout on attempt 1; it does not wait after the last failed
\* attempt; a success on attempt 3 after two unclassified errors has waited
\* 300 ms.
C19_ExponentialBackoff ==
  /\ \A k \in FailedAttempts :
       LET e == retry.log[k]
       IN /\ (k < retry.maxRetries /\ ~isRateLimit(e.message))
               => e.wait = Some(IF isTimeout(e.message) /\ k = 1 THEN 0
                                ELSE 100 * 2^(k - 1))
          /\ k = retry.maxRetries => e.wait = NONE
  /\ \A k \in 1..Invocations : retry.pc = "waiting" /\ k = Invocations
       => Val(retry.log[k].wait) > 0
  /\ (/\ retry.pc = "returned" /\ Invocations = 3
      /\ \A k \in 1..2 : ~isRateLimit(retry.log[k].message)
                         /\ ~isTimeout(retry.log[k].message))
       => TotalWait(retry.log) = 300

\* the operation succeeds on attempt 3 after two unclassified errors
C19_Witness ==
  /\ retry.pc = "returned" /\ Invocations = 3
  /\ \A k \in 1..2 : ~isRateLimit(retry.log[k].message)
                     /\ ~isTimeout(retry.log[k].message)
  /\ retry.log[1].wait = Some(100) /\ retry.log[2].wait = Some(200)

\* C20: after every failed attempt but the last whose error is classified as
\* a rate limit, withRetry waits at least 2000 ms, whatever the attempt and
\* whatever else the message holds.
C20_RateLimitWaitsAtLeast2000 ==
  \A k \in FailedAttempts :
     (k < retry.maxRetries /\ isRateLimit(retry.log[k].message))
       => Val(retry.log[k].wait) >= 2000

\* ---- the vector client
CourseNamespace(c) == IF c = 1 THEN vectors ELSE otherNamespaces["course_" \o ToString(c)]
CourseNamespaceAfter(c) ==
  IF c = 1 THEN vectors' ELSE otherNamespaces'["course_" \o ToString(c)]

\* the ids of the documents of a thread handed to the client
DerivedIds(t) == {d.id : d \in Range(createThreadVectorDocuments(SampleThread(t)))}

\* C14: deleteThread(threadId, courseId) removes from the course's namespace
\* exactly the documents derived from that thread, leaves the documents of
\* every other thread in place and returns the number of documents removed.
C14_DeleteThreadRemovesExactlyThatThread ==
  [][returned'.op = "deleteThread"
       => LET c == returned'.courseId
              before == CourseNamespace(c)
              mine == {v \in before : v.id \in DerivedIds(returned'.threadId)}
          IN /\ CourseNamespaceAfter(c) = before \ mine
             /\ returned'.value = Some(Cardinality(mine))]_vars

\* C15: a call of a method of the vector client for course c reads and
\* writes the namespace course_c only: the namespace of every other course
\* is left as it was, and what search, fetch by id and stats return comes
\* from the namespace of c.
C15_OnlyOwnNamespace ==
  [][/\ \A c \in IndexCourses :
          c # returned'.courseId => CourseNamespaceAfter(c) = CourseNamespace(c)
     /\ returned'.op \in {"searchCourse", "getVectorsByIds"}
          => Val(returned'.value) \subseteq CourseNamespaceAfter(returned'.courseId)
     /\ (returned'.op = "getCourseStats" /\ Val(returned'.value).totalVectors > 0)
          => Val(returned'.value).totalVectors
               = Cardinality(CourseNamespaceAfter(returned'.courseId))]_vars

\* thread 1 deleted from course 2 while course 1 holds its documents
C15_Witness ==
  /\ returned.op = "deleteThread" /\ returned.courseId = 2 /\ returned.threadId = 1
  /\ Val(returned.value) > 0
  /\ otherNamespaces["course_2"] # {}
  /\ \E v \in vectors : v.id = "answer_1_5"

IdTypes == {"thread", "answer", "comment"}
IdNumbers == {1, 2, 10, 11, 12, 21, 110, 111}
IdTriples == {[type |-> ty, threadId |-> t, commentId |-> c] :
                 ty \in IdTypes, t \in IdNumbers, c \in IdNumbers}
SameDocument(a, b) ==
  /\ a.type = b.type /\ a.threadId = b.threadId
  /\ a.type # "thread" => a.commentId = b.commentId
IdOf(a) == generateVectorId(a.type, a.threadId, a.commentId)

RECURSIVE NodesOf(_, _, _)
\* the (type, threadId, commentId) of every comment of a list and of the
\* replies below it
NodesOf(comments, type, threadId) ==
  IF comments = <<>> THEN {}
  ELSE {[type |-> type, threadId |-> threadId, commentId |-> Head(comments).id,
         long |-> Len(cleanText(Head(comments).content, Head(comments).document)) > 10]}
       \cup NodesOf(Head(comments).comments, "comment", threadId)
       \cup NodesOf(Tail(comments), type, threadId)

\* the body, the answers and the comments of a thread, at every depth
ThreadNodes(thread) ==
  {[type |-> "thread", threadId |-> thread.id, commentId |-> 0,
    long |-> Len(cleanText(thread.content, thread.document)) > 10]}
  \cup NodesOf(thread.answers, "answer", thread.id)
  \cup NodesOf(thread.comments, "comment", thread.id)

GenerateVectorIdInjective ==
  \A a, b \in IdTriples : IdOf(a) = IdOf(b) => SameDocument(a, b)

\* C16: the id of a document is a function of its type, its thread id and
\* its comment id alone, thread_{threadId} for a thread body and
\* {type}_{threadId}_{commentId} for an answer or a comment, and two
\* different documents never get the same id; every id stored in a
\* namespace is the id of exactly one item of the threads upserted.
C16_DocumentIdInjective ==
  /\ GenerateVectorIdInjective
  /\ generateVectorId("thread", 12, 0) = "thread_12"
  /\ generateVectorId("answer", 1, 21) = "answer_1_21"
  /\ generateVectorId("comment", 110, 2) = "comment_110_2"
  /\ \A c \in IndexCourses : \A v \in CourseNamespace(c) :
        Cardinality({n \in UNION {ThreadNodes(SampleThread(t)) : t \in SampleThreadIds} :
                       IdOf(n) = v.id}) = 1

\* the answers with comment id 5 of threads 1 and 10 stored side by side
C16_Witness ==
  /\ returned.op = "upsertThreadsBatch"
  /\ {"answer_1_5", "answer_10_5", "thread_1", "thread_10"}
       \subseteq {v.id : v \in vectors}

\* C17: extraction emits one document for the body, for every answer and for
\* every comment, at any depth, whose cleaned text is longer than 10
\* characters, and none for the others; a thread whose body is "ok" and that
\* has one answer of 50 characters gives exactly one document.
C17_OneDocumentPerLongText ==
  returned.op \in {"upsertThreadsBatch", "deltaSyncCourse"}
    => \A i \in 1..Len(returned.threads) :
          LET thread == SampleThread(returned.threads[i])
              docs == createThreadVectorDocuments(thread)
              long == {n \in ThreadNodes(thread) : n.long}
          IN /\ Len(docs) = Cardinality(long)
             /\ {<<d.type, d.id>> : d \in Range(docs)}
                  = {<<n.type, IdOf(n)>> : n \in long}
             /\ thread.id = 2 => Len(docs) = 1 /\ docs[1].type = "answer"

\* the thread with the body "ok" upserted: its answer stored, its body not;
\* thread 1 upserted before: its reply two levels down stored, its comments of
\* 10 characters not
C17_Witness ==
  /\ returned.op = "upsertThreadsBatch" /\ returned.threads = <<2>>
  /\ returned.courseId = 1
  /\ Val(returned.value).upserted = 1
  /\ \E v \in vectors : v.id = "answer_2_7"
  /\ \E v \in vectors : v.id = "comment_1_7"
  /\ \A v \in vectors : v.id \notin {"thread_2", "comment_1_6", "comment_1_8", "comment_1_9"}

\* ---- syncCourseVectors called directly
IsFullSync(r) == r.op = "syncCourseVectors" /\ Val(r.options).forceFullSync
Succeeded(r) == r.threads = <<>> /\ Val(r.value).errors = <<>>

\* C12: a full sync that succeeded, run again with success over the same
\* course content, leaves the namespace with the same document ids and the
\* same number of documents, and upserts the same number as the first run.
C12_FullSyncTwiceSameDocuments ==
  [][(/\ IsFullSync(returned) /\ Succeeded(returned)
      /\ IsFullSync(returned') /\ Succeeded(returned'))
       => /\ {v.id : v \in vectors'} = {v.id : v \in vectors}
          /\ Cardinality(vectors') = Cardinality(vectors)
          /\ Val(returned'.value).upserted = Val(returned.value).upserted
          /\ Cardinality(vectors') = Val(returned'.value).upserted]_vars

\* the second of two successful full syncs of a course with both threads,
\* run at a later time than the first
C12_Witness ==
  /\ IsFullSync(returned) /\ Succeeded(returned) /\ returned.repeated
  /\ now > 1
  /\ upstream[1] > 0 /\ upstream[2] > 0
  /\ Val(returned.value).upserted > 1
  /\ Cardinality(vectors) = Val(returned.value).upserted

\* ---- forceFullResync
\* the workflow forceFullResync starts
IsResyncWorkflow(wf) == wf.syncType = "full" /\ wf.forceFullSync

CurrentIds == [k \in 1..Len(UpstreamList) |-> UpstreamList[k].id]

\* C13: when the workflow started by forceFullResync has fetched and upserted
\* the current threads of the course without a failure, and no other sync of
\* the course is unfinished, the ids in the course's namespace are exactly
\* the ids of the documents of the current threads: no id of a thread that
\* is gone remains, whether or not another sync ran beside the resync.
C13_ResyncLeavesNoStaleId ==
  [][\A w \in WorkflowIds :
        (/\ Moves(w, "enrich", "markCompleted")
         /\ IsResyncWorkflow(workflows'[w])
         /\ \A o \in WorkflowIds \ {w} : ~Running(o)
         /\ ListedIds(workflows[w]) = CurrentIds
         /\ workflows'[w].failedThreads = <<>>
         /\ workflows'[w].result.errors = <<>>)
          => {v.id : v \in vectors'} = DocIdsOf(CurrentIds)]_vars

\* ---- performCourseSync with a token the identity call rejects
\* C21: a performCourseSync whose identity call fails fetches no thread and
\* writes nothing to the vector index; it never makes the `syncing` write;
\* its one write to the table sets the course's record to `failed` with an
\* errorMessage that carries the token error, and the step then throws.
C21_BadTokenOnlyFailedWrite ==
  [][\A w \in WorkflowIds :
        (/\ workflows'[w] # workflows[w]
         /\ workflows[w].edToken # "" /\ workflows[w].edToken # "ok")
          => /\ vectors' = vectors
             /\ workflows'[w].threads = <<>> /\ workflows'[w].detailIds = <<>>
             /\ workflows[w].pc \in {"scheduled", "markFailed"}
             /\ workflows[w].pc = "scheduled"
                  => /\ workflows'[w].pc = "markFailed"
                     /\ courseSyncStates' = courseSyncStates
                     /\ workflows'[w].error = "Invalid ED token: " \o TokenErrorText
             /\ workflows[w].pc = "markFailed"
                  => /\ workflows'[w].pc = "thrown"
                     /\ \E d \in courseSyncStates' :
                           /\ d.courseId = workflows[w].courseId
                           /\ d.status = "failed"
                           /\ d.errorMessage = Some(workflows[w].error)
                           /\ {x \in courseSyncStates' : x # d}
                                = {x \in courseSyncStates : x.courseId # d.courseId}]_vars

\* the step has thrown and the record holds the token error
C21_Witness ==
  \E w \in WorkflowIds :
     /\ workflows[w].pc = "thrown"
     /\ \E d \in courseSyncStates :
           /\ d.courseId = workflows[w].courseId
           /\ d.status = "failed"
           /\ d.errorMessage = Some("Invalid ED token: " \o TokenErrorText)
     /\ vectors = {}

\* ---- the lifecycle of a record
\* C22: every step that leaves a record in `completed` or `failed` with a
\* status it did not have before found that record in `syncing`: no record
\* goes from `idle`, `completed` or `failed` to another of `completed` and
\* `failed`, and no record is created in one of them.
C22_TerminalOnlyFromSyncing ==
  [][\A d \in courseSyncStates' :
        d.status \in {"completed", "failed"}
          => \E b \in courseSyncStates :
                /\ b.courseId = d.courseId
                /\ b.status \in {"syncing", d.status}]_vars

\* ---- the maintenance mutations
TimeoutText == "Sync timed out - reset by cleanup"

\* C24: resetStuckSyncs(maxHours) sets every record in `syncing` whose
\* lastSyncAt is before now minus maxHours (2 hours when maxHours is left
\* out) to `failed` with the timeout errorMessage, changes no other field of
\* it, leaves every other record as it was, and returns the number of
\* records it reset.
C24_ResetExactlyStuckSyncs ==
  [][returned'.op = "resetStuckSyncs"
       => LET maxHours == Val(returned'.options)
              hours == IF maxHours = NONE THEN 2 ELSE Val(maxHours)
              cutoff == now - hours * 60 * 60 * 1000
              stuck == {d \in courseSyncStates :
                          /\ d.status = "syncing"
                          /\ d.lastSyncAt # NONE /\ Val(d.lastSyncAt) < cutoff}
          IN /\ courseSyncStates' =
                  (courseSyncStates \ stuck)
                     \cup {[d EXCEPT !.status = "failed",
                                     !.errorMessage = Some(TimeoutText)] : d \in stuck}
             /\ returned'.value = Some([resetCount |-> Cardinality(stuck)])]_vars

\* the default sweep has reset course 1 and left course 2, in `syncing` for
\* exactly two hours, alone
C24_Witness ==
  /\ returned.op = "resetStuckSyncs" /\ returned.options = Some(NONE)
  /\ returned.value = Some([resetCount |-> 1])
  /\ \E d \in courseSyncStates :
        /\ d.courseId = 1 /\ d.status = "failed"
        /\ d.errorMessage = Some(TimeoutText)
        /\ d.lastSyncAt = Some(SweepNow - 3 * MILLISECONDS_PER_HOUR)
        /\ d.workflowId = Some(1)
  /\ \E d \in courseSyncStates :
        /\ d.courseId = 2 /\ d.status = "syncing"
        /\ d.lastSyncAt = Some(SweepNow - 2 * MILLISECONDS_PER_HOUR)

\* C28: cleanupCompletedSyncs(olderThanDays) deletes exactly the records in
\* `completed` or `failed` whose lastSyncAt is before now minus olderThanDays
\* (7 days when olderThanDays is left out), deletes no other record, and
\* deletedCount is the number of records it removed.
C28_CleanupExactlyOldFinished ==
  [][returned'.op = "cleanupCompletedSyncs"
       => LET olderThanDays == Val(returned'.options)
              days == IF olderThanDays = NONE THEN 7 ELSE Val(olderThanDays)
              cutoff == now - days * 24 * 60 * 60 * 1000
              old == {d \in courseSyncStates :
                        /\ d.status \in {"completed", "failed"}
                        /\ d.lastSyncAt # NONE /\ Val(d.lastSyncAt) < cutoff}
          IN /\ courseSyncStates' = courseSyncStates \ old
             /\ returned'.value = Some([deletedCount |-> Cardinality(old)])]_vars

\* ---- one record per course
\* C29: whatever startCourseSync, syncAllActiveCourses, forceFullResync,
\* performCourseSync, resetStuckSyncs, cleanupCompletedSyncs and
\* deleteCourseSync do and however their steps interleave, the table holds at
\* most one record for each courseId.
C29_OneRecordPerCourse ==
  \A a \in courseSyncStates, b \in courseSyncStates :
     a.courseId = b.courseId => a = b

\* the record of the course was deleted and written anew while two workflows
\* and a call were under way
C29_Witness ==
  /\ \E d \in courseSyncStates : d._id = 2
  /\ Len(workflows) = 2 /\ Len(calls) = 1
  /\ \E w \in WorkflowIds : Running(w)

\* ---- the health check
\* C27: the health check neither throws nor hangs: for every token and
\* whether the identity call succeeds, fails or never answers, getHealthStatus
\* resolves to a record with isHealthy and a message; isHealthy is true only
\* when the identity call succeeded no later than 10 seconds after the check
\* started it, and a check whose identity call did not answer resolves to
\* isHealthy = false at the 10 seconds.
C27_HealthCheckResolves ==
  /\ [](healthCheck.pc = "resolved"
          => LET result == Val(healthCheck.result)
             IN /\ healthCheck.result # NONE
                /\ result.isHealthy \in BOOLEAN
                /\ result.message # ""
                /\ result.isHealthy
                     => /\ healthCheck.answer = "success"
                        /\ healthCheck.resolvedAt <= healthCheck.startedAt + 10000
                /\ healthCheck.answer = "none" => ~result.isHealthy
                /\ healthCheck.resolvedAt > healthCheck.startedAt + 10000
                     => ~result.isHealthy)
  /\ (healthCheck.pc # "idle") ~> (healthCheck.pc = "resolved")

\* the Ed API did not answer the identity call made with the accepted token:
\* the check resolved at the 10 seconds
C27_Witness ==
  /\ healthCheck.pc = "resolved"
  /\ healthCheck.edToken = AcceptedToken
  /\ healthCheck.answer = "none"
  /\ healthCheck.resolvedAt = healthCheck.startedAt + 10000
  /\ Val(healthCheck.result) = HealthResult(FALSE, TimeoutErrorText, NONE)

\* ---- partial credit of upsertThreadsBatch
\* the entries errors has for the threads of 1..n whose extraction throws
RECURSIVE ThreadErrorsFrom(_, _, _)
ThreadErrorsFrom(t, n, broken) ==
  IF t > n THEN <<>>
  ELSE (IF t \in broken
        THEN <<"Failed to process thread " \o ToString(t) \o ": " \o TypeErrorText>>
        ELSE <<>>) \o ThreadErrorsFrom(t + 1, n, broken)

\* the entries errors has for the chunks k.. of `chunks` whose upsert throws
RECURSIVE ChunkErrorsFrom(_, _, _)
ChunkErrorsFrom(k, chunks, failing) ==
  IF k >= chunks THEN <<>>
  ELSE (IF k \in failing
        THEN <<"Batch upsert failed for chunk " \o ToString(k) \o ": "
                 \o UpsertErrorText>>
        ELSE <<>>) \o ChunkErrorsFrom(k + 1, chunks, failing)

\* C26: upsertThreadsBatch gives partial credit: a thread whose extraction
\* throws and a chunk of 100 documents whose upsert throws are each recorded
\* as one entry of errors and stop neither the threads nor the chunks after
\* them; upserted is the number of documents in the chunks whose upsert
\* succeeded, and exactly those documents are in the namespace.
C26_PartialCredit ==
  (returned.op = "upsertThreadsBatch" /\ returned.options # NONE)
    => LET n == Len(returned.threads)
           broken == Val(returned.options).broken
           failing == Val(returned.options).failing
           intact == {t \in 1..n : t \notin broken}
           perThread == CommentsPerThread + 1
           \* document j of thread t: 0 the thread's own, c its comment c
           documents == intact \X (0..CommentsPerThread)
           position(d) == perThread * Cardinality({u \in intact : u < d[1]}) + d[2] + 1
           chunks == (Cardinality(documents) + 99) \div 100
           chunkOf(d) == (position(d) - 1) \div 100
           stored == {d \in documents : chunkOf(d) \notin failing}
           idOf(d) == IF d[2] = 0 THEN "thread_" \o ToString(d[1])
                      ELSE "comment_" \o ToString(d[1]) \o "_" \o ToString(d[2])
           result == Val(returned.value)
       IN /\ result.upserted = Cardinality(stored)
          /\ result.errors = ThreadErrorsFrom(1, n, broken)
                               \o ChunkErrorsFrom(0, chunks, failing)
          /\ {v.id : v \in vectors} = {idOf(d) : d \in stored}

\* of 7 threads the first threw and, of the three chunks of the 204
\* documents of the others, the second was rejected: 104 documents were
\* upserted, those of the third chunk among them
C26_Witness ==
  /\ returned.op = "upsertThreadsBatch"
  /\ Len(returned.threads) = 7
  /\ returned.options = Some([broken |-> {1}, failing |-> {1}])
  /\ Val(returned.value).upserted = 104
  /\ Len(Val(returned.value).errors) = 2
  /\ \E v \in vectors : v.id = "comment_7_33"

\* ---- the thread list since a date
\* C30: getAllCourseThreads(courseId, sinceDate) returns every thread of the
\* course last edited at or after sinceDate, whether or not the server
\* applies `since`: a page holding threads older than sinceDate does not make
\* it skip the pages after it.
C30_SinceReturnsEveryUpdatedThread ==
  (pager.done /\ pager.sinceDate # NONE)
    => {t \in 1..pager.total : t \notin pager.old}
         \subseteq {pager.allThreads[i].id : i \in 1..Len(pager.allThreads)}

\* ---- performCourseSync run again after a crash
\* C23: performCourseSync run again from its beginning after a crash at any
\* point, with the same arguments and the course unchanged, ends as one
\* uninterrupted execution ends: with the same document ids in the index and
\* the same status and syncedThreads in the SyncState.  For the first sync
\* of a course with an accepted token the uninterrupted execution ends with
\* the documents of every thread, `completed`, and their number as
\* syncedThreads; with a rejected token it ends with `failed` and no document.
C23_ReplayEndsAsUninterrupted ==
  [][\A w \in WorkflowIds :
       (Running(w) /\ ~Running(w)' /\ workflows[w].edToken # "")
         => LET ids == DocIdsOf(CurrentIds)
                d == Val(getCourseSyncState(workflows[w].courseId))'
            IN IF workflows[w].edToken = "ok"
               THEN /\ {v.id : v \in vectors'} = ids
                    /\ d.status = "completed"
                    /\ d.syncedThreads = Some(Cardinality(ids))
               ELSE /\ vectors' = {}
                    /\ d.status = "failed"
                    /\ d.syncedThreads = NONE]_vars

\* ---- the slices of the enrichment
\* the detail requests in flight, and the fetches of the slice not yet settled
InFlight ==
  batchRun.fetching + (IF retry.pc = "attempt" THEN 1 ELSE 0)
Unsettled ==
  batchRun.fetching + (IF retry.pc \in {"attempt", "waiting"} THEN 1 ELSE 0)

\* C25: during enrichment at most 50 detail fetches are in flight in a full
\* sync and at most 30 in a delta sync; the list is worked through in
\* consecutive slices of that size, and no fetch of the next slice starts
\* before every fetch of the current slice, retries included, has settled.
C25_SlicesOneAfterAnother ==
  /\ [](InFlight <= (IF batchRun.mode = "full" THEN 50 ELSE 30))
  /\ [][batchRun'.started # batchRun.started
          => LET size == IF batchRun'.mode = "full" THEN 50 ELSE 30
             IN /\ Unsettled = 0
                /\ batchRun.started = batchRun'.i
                /\ batchRun'.i % size = 0
                /\ batchRun'.started
                     = (IF batchRun'.i + size < batchRun'.length
                        THEN batchRun'.i + size ELSE batchRun'.length)
                /\ InFlight' = batchRun'.started - batchRun'.i]_vars

\* the third slice of a full sync of 101 threads is in flight after the first
\* thread failed all its attempts in the first slice
C25_Witness ==
  /\ batchRun.mode = "full" /\ batchRun.length = 101
  /\ batchRun.i = 100 /\ batchRun.pc = "await"
  /\ batchRun.failed = 1 /\ batchRun.successful = 99
  /\ InFlight = 1

\* ---- C31
\* the record of a course after the step
SyncStateAfter(courseId) ==
  CHOOSE d \in courseSyncStates' :
    /\ d.courseId = courseId
    /\ \A h \in courseSyncStates' : h.courseId = courseId => d._id <= h._id

ForceCalls == {k \in 1..Len(calls) : calls[k].kind = "forceFull"}

ForceSteps ==
  {<<"deleteVectors", "resetState">>, <<"resetState", "startWorkflow">>,
   <<"startWorkflow", "markSyncing">>, <<"markSyncing", "returned">>}

\* C31: forceFullResync deletes the course's vectors, then writes the record
\* idle with syncedThreads 0 and totalThreads 0, then starts a full-sync
\* workflow, then writes the record syncing with the new workflowId, in this
\* order; a step that throws ends the call with success false and no later
\* step runs.
C31_ForceFullResyncInOrder ==
  [][\A k \in ForceCalls :
       LET call == calls[k]
           after == calls'[k]
           state == SyncStateAfter(call.courseId)
       IN call.pc # after.pc =>
            IF after.pc = "returned" /\ ~after.success
            THEN /\ call.pc # "returned"
                 /\ UNCHANGED <<courseSyncStates, workflows, vectors>>
            ELSE /\ <<call.pc, after.pc>> \in ForceSteps
                 /\ call.pc = "deleteVectors" =>
                      /\ vectors' = {}
                      /\ UNCHANGED <<courseSyncStates, workflows>>
                 /\ call.pc = "resetState" =>
                      /\ state.status = "idle"
                      /\ state.syncedThreads = Some(0)
                      /\ state.totalThreads = Some(0)
                      /\ UNCHANGED <<workflows, vectors>>
                 /\ call.pc = "startWorkflow" =>
                      /\ Len(workflows') = Len(workflows) + 1
                      /\ after.workflowId = Len(workflows')
                      /\ workflows'[after.workflowId].courseId = call.courseId
                      /\ workflows'[after.workflowId].syncType = "full"
                      /\ workflows'[after.workflowId].forceFullSync
                      /\ UNCHANGED <<courseSyncStates, vectors>>
                 /\ call.pc = "markSyncing" =>
                      /\ after.success
                      /\ state.status = "syncing"
                      /\ state.workflowId = Some(call.workflowId)
                      /\ UNCHANGED <<workflows, vectors>>]_vars

\* a forced resync that made all four steps over an indexed course, the
\* started workflow not yet run
C31_Witness ==
  /\ Len(calls) = 1 /\ calls[1].kind = "forceFull"
  /\ calls[1].pc = "returned" /\ calls[1].success
  /\ vectors = {}
  /\ Len(workflows) = 1 /\ workflows[1].pc = "scheduled"
  /\ \E d \in courseSyncStates : d.status = "syncing" /\ d.workflowId = Some(1)

\* ---- C32
\* the Ed API rejected the request with 401 or 403
isAuthError(message) == includes(message, "(401)") \/ includes(message, "(403)")

\* C32: an operation that failed with an authentication error (401 or 403) is
\* not invoked again: the failed attempt is the last entry of the log and
\* withRetry has thrown.
C32_AuthErrorNotRetried ==
  \A i \in 1..Len(retry.log) :
     isAuthError(retry.log[i].message) =>
        i = Len(retry.log) /\ retry.pc = "thrown"

\* ---- C33
RECURSIVE Flatten(_)
Flatten(seqs) == IF seqs = <<>> THEN <<>> ELSE Head(seqs) \o Flatten(Tail(seqs))

\* the ids of the documents of threads 1..n but the broken ones, in the
\* order of extraction: the thread's own, then its comments
ExtractedIds(n, broken) ==
  LET intact == {t \in 1..n : t \notin broken}
      perThread == CommentsPerThread + 1
      nth(i) == CHOOSE t \in intact : Cardinality({u \in intact : u < t}) = i - 1
      idAt(p) == LET t == nth(((p - 1) \div perThread) + 1)
                     j == (p - 1) % perThread
                 IN IF j = 0 THEN "thread_" \o ToString(t)
                    ELSE "comment_" \o ToString(t) \o "_" \o ToString(j)
  IN [p \in 1..(perThread * Cardinality(intact)) |-> idAt(p)]

\* C33: upsertThreadsBatch hands the flattened documents to index.upsert in
\* consecutive chunks of at most 100: n > 0 documents make ceil(n/100) calls,
\* the chunks one after another are the documents in extraction order (each
\* document in exactly one chunk); n = 0 documents make no call and
\* upserted is 0.
C33_ConsecutiveChunks ==
  (returned.op = "upsertThreadsBatch" /\ returned.options # NONE)
    => LET expected == ExtractedIds(Len(returned.threads), Val(returned.options).broken)
           n == Len(expected)
           sent == returned.ids
       IN /\ n > 0 => Len(sent) = (n + 99) \div 100
          /\ n = 0 => Len(sent) = 0 /\ Val(returned.value).upserted = 0
          /\ \A k \in 1..Len(sent) : Len(sent[k]) \in 1..100
          /\ Flatten(sent) = expected

\* the 238 documents of 7 threads went out in three calls of 100, 100 and 38
C33_Witness ==
  /\ returned.op = "upsertThreadsBatch"
  /\ Len(returned.threads) = 7
  /\ Val(returned.options).broken = {}
  /\ Len(returned.ids) = 3
  /\ Len(returned.ids[3]) = 38
  /\ returned.ids[2][1] = "comment_3_32"

\* ---- C34
\* the top-level elements of the answers of the thread of NestedThread
TopLevelAnswers == {1, 4}

NestedType(n) == IF n \in TopLevelAnswers THEN "answer" ELSE "comment"

\* C34: a top-level element of a thread's answers is emitted with type
\* answer; a top-level element of its comments and a nested reply at any
\* depth, under an answer too, is emitted with type comment; the replies of
\* a node are visited whether or not the node's own text is long enough to
\* be indexed.
C34_NestedRepliesAreComments ==
  (returned.op = "upsertThreadsBatch" /\ returned.options # NONE)
    => Range(returned.written)
         = {[id |-> "thread_1", type |-> "thread"]}
             \cup {[id |-> NestedType(n) \o "_1_" \o ToString(n), type |-> NestedType(n)] :
                      n \in Val(returned.options)}

\* answer 1, its reply 2 and comments 5 and 6 are too short; the replies 3
\* and 7 below them are emitted as comments, answer 4 as an answer
C34_Witness ==
  /\ returned.op = "upsertThreadsBatch"
  /\ returned.options = Some({3, 4, 7})
  /\ {v.id : v \in vectors} = {"thread_1", "comment_1_3", "answer_1_4", "comment_1_7"}
  /\ Len(returned.written) = 4

\* ---- C35
KeptWhenLeftOut ==
  {"lastSyncAt", "lastSuccessfulSyncAt", "totalThreads", "syncedThreads", "workflowId"}

\* C35: updateSyncState on an existing record changes only the fields
\* supplied: lastSyncAt (of a failed write too), workflowId, totalThreads and
\* syncedThreads left out keep their stored values; a completed or syncing
\* write removes the stored errorMessage, any other write that leaves it
\* out keeps it.
C35_PatchChangesOnlySupplied ==
  [][(returned'.op = "updateSyncState" /\ returned'.repeated)
       => \E existing \in courseSyncStates, after \in courseSyncStates' :
            LET args == Val(returned'.value)
            IN /\ courseSyncStates = {existing} /\ courseSyncStates' = {after}
               /\ after._id = existing._id /\ after.courseId = existing.courseId
               /\ \A f \in KeptWhenLeftOut : args[f] = NONE => after[f] = existing[f]
               /\ args.status \in {"completed", "syncing"} => after.errorMessage = NONE
               /\ (args.status \in {"idle", "failed"} /\ args.errorMessage = NONE)
                    => after.errorMessage = existing.errorMessage]_vars

\* a failed write that supplies only its message landed on a syncing record
\* that had a lastSyncAt, counts and a workflowId: all of them are kept
C35_Witness ==
  /\ returned.op = "updateSyncState" /\ returned.repeated
  /\ Val(returned.value) = [Args(1, "failed", "full") EXCEPT !.errorMessage = Some("boom")]
  /\ \E d \in courseSyncStates :
        /\ d.status = "failed" /\ d.lastSyncAt = Some(1) /\ d.workflowId = Some(1)
        /\ d.totalThreads = Some(2) /\ d.syncedThreads = Some(2)
        /\ d.errorMessage = Some("boom")

\* ---- C36
\* C36: a record with status failed has an errorMessage, a record with
\* status syncing has none.
C36_FailedHasMessageSyncingNone ==
  \A d \in courseSyncStates :
     /\ d.status = "failed" => d.errorMessage # NONE
     /\ d.status = "syncing" => d.errorMessage = NONE

\* the sync of the course failed at the token check and wrote its message
\* on the syncing record; the next sync is started and has still to write
C36_Witness ==
  /\ Len(workflows) = 2
  /\ workflows[1].pc = "thrown" /\ workflows[2].pc = "markSyncing"
  /\ \E d \in courseSyncStates :
        /\ d.status = "failed"
        /\ d.errorMessage = Some("Invalid ED token: " \o TokenErrorText)
        /\ d.lastSyncAt # NONE

\* ---- C37
\* C37: a sync, full or delta, removes no vector: every id in the course
\* namespace before the sync is in it after the sync, and the deleted count
\* it reports is 0; the documents of a thread deleted upstream stay until
\* the vectors are deleted by another operation.
C37_SyncRemovesNoVector ==
  [][returned'.op = "syncCourseVectors"
       => /\ {v.id : v \in vectors} \subseteq {v.id : v \in vectors'}
          /\ Val(returned'.value).deleted = 0]_vars

\* thread 2 was deleted upstream; a full sync listed thread 1 alone, upserted
\* its documents without an error, and the comment of thread 2 is still
\* in the namespace
C37_Witness ==
  /\ upstream[2] = 0
  /\ IsFullSync(returned) /\ Succeeded(returned)
  /\ returned.listed = <<1>>
  /\ \E v \in vectors : v.id = "comment_2_21"

\* ---- C38
\* C38: getCourseStats returns four counts and never throws: all four are 0
\* when a page of the range scan failed, whatever the pages before it
\* counted; otherwise totalVectors is the number of vectors of the
\* namespace, each of them counted under at most one of thread, answer and
\* comment by the prefix of its id, so the three counts sum to at most
\* totalVectors.
C38_StatsZeroOnFailureElseCounts ==
  (returned.op = "getCourseStats" /\ returned.options # NONE /\ returned.value # NONE)
    => LET scan == Val(returned.options)
           stats == Val(returned.value)
           n == Cardinality(vectors)
           every(r) == Cardinality({i \in 1..n : i % 3 = r})
       IN /\ DOMAIN stats = {"totalVectors", "threadVectors", "answerVectors",
                             "commentVectors"}
          /\ scan.failed => \A f \in DOMAIN stats : stats[f] = 0
          /\ ~scan.failed =>
               /\ stats.totalVectors = n
               /\ stats.threadVectors = every(1)
               /\ stats.answerVectors = every(2)
               /\ stats.commentVectors = every(0)
               /\ stats.threadVectors + stats.answerVectors + stats.commentVectors
                    <= stats.totalVectors

\* the third page of a namespace of 2001 vectors failed after two pages had
\* counted 2000: the counts returned are 0
C38_Witness ==
  /\ returned.op = "getCourseStats" /\ returned.options # NONE
  /\ Cardinality(vectors) = 2001
  /\ Val(returned.options).failed /\ Val(returned.options).pages = 3
  /\ Val(returned.options).stats.totalVectors = 2000
  /\ returned.value = Some(RangeFailedStats)

====
